---- MODULE Spec2Model ----
(***************************************************************************)
(* State-machine model of the multi-page PDF viewer component (PdfViewer)  *)
(* and of the operations it is built from.                                 *)
(*                                                                         *)
(* React state is modelled as it behaves: a state variable changes only    *)
(* when a render commits; setState calls made from asynchronous            *)
(* continuations are queued in pendingUpdates and applied, in order, by    *)
(* the next commit; handlers of discrete user events commit at once.  A    *)
(* commit also runs every effect whose dependencies changed.  Closures     *)
(* created by a render see the state committed by that render, so an       *)
(* asynchronous run keeps the values it captured when it was invoked.      *)
(***************************************************************************)
EXTENDS Integers, Sequences, FiniteSets, TLC

(***************************************************************************)
(* Bounds of the model                                                     *)
(***************************************************************************)
MaxPages == 2
MaxLoads == 2
MaxSessionLoads == 1
MaxRuns == 2
MaxPasses == 1
MaxParamChanges == 1
MaxThumbRuns == 2
MaxScans == 2
MaxFonts == 2
MaxAnalyses == 2

(***************************************************************************)
(* Program constants.  Scale is counted in quarters (0.25 = 1).            *)
(***************************************************************************)
ZOOM_STEP == 1
MIN_ZOOM == 1
MAX_ZOOM == 16
InitialScale == 4
HEAVY_PAGE_THRESHOLD == 10000
HEAVY_TEXT_THRESHOLD == 1000
HEAVY_FONT_SWITCH_THRESHOLD == 200
TYPE3_COST_MULTIPLIER == 100

Files == {1, 2}
NumPages(f) == IF f = 1 THEN MaxPages ELSE 1

\* Strings are sequences of characters, so that trim, toLowerCase and
\* includes are computed and not assumed.
Queries == { << >>, << "a" >>, << " " >> }
\* what is typed into the search box in a session about searching
SearchQueries == Queries \cup { << "b" >>, << "A" >> }

NoDoc == [id |-> 0, file |-> 0]
NoBuf == 0
NoTimer == [set |-> FALSE, doc |-> NoDoc, query |-> << >>]
EmptyMap == << >>
Min(a, b) == IF a < b THEN a ELSE b
Max(a, b) == IF a > b THEN a ELSE b

VARIABLES
  pdfDoc,              \* useState pdfDoc: NoDoc or a document handle
  totalPages,          \* useState totalPages
  pdfArrayBuffer,      \* useState pdfArrayBuffer: NoBuf or the id of the load it came from
  scale,               \* useState scale
  rotation,            \* useState rotation
  searchQuery,         \* useState searchQuery
  pageRenderStates,    \* useState pageRenderStates: Map page -> PageRenderState
  error,               \* useState error: "" or a message
  loading,             \* useState loading
  pendingUpdates,      \* setState calls not yet rendered
  pageRefsMap,         \* pageRefsMap.current: page -> id of its mounted container
  canvas,              \* the canvas of each mounted page
  textLayer,           \* the text layer of each mounted page: the span groups in it
  renderRuns,          \* renderSinglePage invocations in flight, in start order
  textPasses,          \* updateTextLayers invocations in flight
  showThumbnails,      \* useState showThumbnails
  thumbnails,          \* useState thumbnails
  isGeneratingThumbnails, \* useState isGeneratingThumbnails
  thumbRuns,           \* generateThumbnails invocations in flight, in start order
  searchResults,       \* useState searchResults
  currentMatchIndex,   \* useState currentMatchIndex
  isSearching,         \* useState isSearching
  searchTimer,         \* the pending debounce timer, or NoTimer
  scans,               \* performSearch invocations in flight
  loads,               \* loadPdf invocations in flight
  nLoads,              \* number of loads requested so far
  nRuns,               \* number of renderSinglePage runs started so far
  nChanges,            \* number of scale/rotation/query changes so far
  prompt,              \* useState showPasswordDialog, password, passwordError,
                       \* pendingPdfData and currentPassword
  analysis,            \* the analyzePageComplexity invocation under observation
  pdfium,              \* the renderPageWithPdfium invocation under observation
  synth,               \* the text-layer pass of renderTextLayerToElement under observation
  single,              \* the single-canvas viewer: its executeRender calls and what they write
  lib                  \* the module state of the PDFium adapter: pdfiumInstance, initPromise

viewerVars == << pdfDoc, totalPages, pdfArrayBuffer, scale, rotation, searchQuery,
           pageRenderStates, error, loading, pendingUpdates, pageRefsMap,
           canvas, textLayer, renderRuns, textPasses, showThumbnails, thumbnails,
           isGeneratingThumbnails, thumbRuns, searchResults, currentMatchIndex,
           isSearching, searchTimer, scans, loads, nLoads, nRuns, nChanges, prompt >>

\* the helper functions of the viewer, observed one invocation at a time
helperVars == << analysis, pdfium, synth, single, lib >>

vars == << viewerVars, helperVars >>

\* no invocation of a helper is under observation
NoCall == [pc |-> "none"]

(***************************************************************************)
(* Maps and sequences                                                      *)
(***************************************************************************)
MapSet(m, k, v) == [x \in (DOMAIN m) \cup {k} |-> IF x = k THEN v ELSE m[x]]
MapHas(m, k) == k \in DOMAIN m
Restrict(m, S) == [x \in (DOMAIN m) \cap S |-> m[x]]
RemoveAt(s, i) == [j \in 1..(Len(s) - 1) |-> IF j < i THEN s[j] ELSE s[j + 1]]
ReplaceAt(s, i, v) == [s EXCEPT ![i] = v]

RECURSIVE Fold(_, _, _)
Fold(Op(_, _), s, q) == IF q = << >> THEN s ELSE Fold(Op, Op(s, Head(q)), Tail(q))

(***************************************************************************)
(* PageRenderState                                                         *)
(***************************************************************************)
PRS(rendered, rendering, usedPdfium) ==
  [rendered |-> rendered, rendering |-> rendering, usedPdfium |-> usedPdfium]

\* currentState?.rendered and currentState?.rendering of a page of a map
IsRendered(m, p) == MapHas(m, p) /\ m[p].rendered
IsRendering(m, p) == MapHas(m, p) /\ m[p].rendering

(***************************************************************************)
(* State updates: what each queued setState call does to its variable      *)
(***************************************************************************)
U(t, p, v) == [t |-> t, p |-> p, v |-> v]

\* faulty variant: a query update also empties the render states
ApplyPRS_ResetOnQuery(m, u) ==
  CASE u.t = "prs_set" -> MapSet(m, u.p, u.v)
    [] u.t = "prs_reset" -> EmptyMap
    [] u.t = "searchQuery" -> EmptyMap
    [] OTHER -> m

ApplyPRS(m, u) ==
  CASE u.t = "prs_set" -> MapSet(m, u.p, u.v)
    [] u.t = "prs_reset" -> EmptyMap
    [] OTHER -> m

ApplyDoc(d, u) == IF u.t = "pdfDoc" THEN u.v ELSE d
ApplyTotalPages(n, u) == IF u.t = "totalPages" THEN u.v ELSE n
ApplyBuf(b, u) == IF u.t = "pdfArrayBuffer" THEN u.v ELSE b
ApplyError(e, u) == IF u.t = "error" THEN u.v ELSE e
ApplyLoading(l, u) == IF u.t = "loading" THEN u.v ELSE l
ApplyQuery(s, u) == IF u.t = "searchQuery" THEN u.v ELSE s

\* The password prompt.  A password is a string, "" for none; the pending
\* bytes are the buffer of the load that asked for a password, with its file.
NoPassword == ""
NoPending == [buf |-> NoBuf, file |-> 0]
NoPrompt ==
  [show |-> FALSE, password |-> NoPassword, error |-> "", pending |-> NoPending,
   current |-> NoPassword]

ApplyPrompt(p, u) ==
  CASE u.t = "showPasswordDialog" -> [p EXCEPT !.show = u.v]
    [] u.t = "password" -> [p EXCEPT !.password = u.v]
    [] u.t = "passwordError" -> [p EXCEPT !.error = u.v]
    [] u.t = "pendingPdfData" -> [p EXCEPT !.pending = u.v]
    [] u.t = "currentPassword" -> [p EXCEPT !.current = u.v]
    [] OTHER -> p

\* faulty variant: zoomIn advances by two steps
ApplyScale_DoubleStep(s, u) ==
  CASE u.t = "zoomIn" -> Min(MAX_ZOOM, s + 2 * ZOOM_STEP)
    [] u.t = "zoomOut" -> Max(MIN_ZOOM, s - ZOOM_STEP)
    [] u.t = "scale" -> u.v
    [] OTHER -> s

ApplyScale(s, u) ==
  CASE u.t = "zoomIn" -> Min(MAX_ZOOM, s + ZOOM_STEP)
    [] u.t = "zoomOut" -> Max(MIN_ZOOM, s - ZOOM_STEP)
    [] u.t = "scale" -> u.v
    [] OTHER -> s

\* faulty variant: rotateClockwise turns by a half turn
ApplyRotation_HalfTurn(r, u) ==
  CASE u.t = "rotateClockwise" -> (r + 180) % 360
    [] u.t = "rotateCounterClockwise" -> (r - 90 + 360) % 360
    [] u.t = "rotation" -> u.v
    [] OTHER -> r

ApplyRotation(r, u) ==
  CASE u.t = "rotateClockwise" -> (r + 90) % 360
    [] u.t = "rotateCounterClockwise" -> (r - 90 + 360) % 360
    [] u.t = "rotation" -> u.v
    [] OTHER -> r

ApplyThumbnails(s, u) ==
  CASE u.t = "thumb_append" -> Append(s, u.v)
    [] u.t = "thumbnails" -> u.v
    [] OTHER -> s

ApplyShowThumbnails(b, u) == IF u.t = "toggleThumbnails" THEN ~b ELSE b
ApplyIsGenerating(b, u) == IF u.t = "isGeneratingThumbnails" THEN u.v ELSE b
\* faulty variant: the new matches are added to the list that was there
ApplySearchResults_Appends(r, u) == IF u.t = "searchResults" THEN r \o u.v ELSE r

ApplySearchResults(r, u) == IF u.t = "searchResults" THEN u.v ELSE r
ApplyMatchIndex(i, u) == IF u.t = "currentMatchIndex" THEN u.v ELSE i
ApplyIsSearching(b, u) == IF u.t = "isSearching" THEN u.v ELSE b

PrsTouched(q) == \E i \in 1..Len(q) : q[i].t \in {"prs_set", "prs_reset"}

(***************************************************************************)
(* The page elements.  A container is identified by the id of the document *)
(* whose commit mounted it; the subtree is mounted only while pdfDoc is    *)
(* set, keyed by page number, with one container per page of totalPages.   *)
(***************************************************************************)
BlankCanvas == [kind |-> "blank", doc |-> 0, scale |-> 0, rotation |-> 0]
Bitmap(kind, run) ==
  [kind |-> kind, doc |-> run.doc.id, scale |-> run.scale, rotation |-> run.rotation]
SpanGroup(w) ==
  [doc |-> w.doc.id, scale |-> w.scale, rotation |-> w.rotation, query |-> w.query]

MountedRefs(nDoc, nTotal) ==
  IF nDoc = NoDoc THEN EmptyMap
  ELSE [p \in 1..nTotal |-> IF MapHas(pageRefsMap, p) THEN pageRefsMap[p] ELSE nDoc.id]

MountedCanvas(refs) ==
  [p \in DOMAIN refs |-> IF MapHas(pageRefsMap, p) THEN canvas[p] ELSE BlankCanvas]

MountedTextLayer(refs) ==
  [p \in DOMAIN refs |-> IF MapHas(pageRefsMap, p) THEN textLayer[p] ELSE << >>]

\* an element captured earlier is still the one mounted for page p
Attached(refs, p, elem) == MapHas(refs, p) /\ refs[p] = elem

(***************************************************************************)
(* Effect: reset of the render states (deps pdfDoc, scale, rotation)       *)
(***************************************************************************)
\* faulty variant: rotation is missing from the dependencies of the effect
ResetEffectFires_NoRotation(nDoc, nScale, nRot) ==
  /\ nDoc # NoDoc
  /\ nDoc # pdfDoc \/ nScale # scale

ResetEffectFires(nDoc, nScale, nRot) ==
  /\ nDoc # NoDoc
  /\ nDoc # pdfDoc \/ nScale # scale \/ nRot # rotation

(***************************************************************************)
(* Effect: updateTextLayers (deps pdfDoc, searchQuery, scale, rotation,    *)
(* pageRenderStates).  The loop visits the entries of the map it was given *)
(* (ascending page order here) and looks the container up when it reaches  *)
(* the page.                                                               *)
(***************************************************************************)
SetMin(S) == CHOOSE x \in S : \A y \in S : x <= y

\* the loop of updateTextLayers from its top: skip pages without container,
\* stop at the first one that has one (getPage is then awaited)
PassAdvance(pass, todo, refs) ==
  LET S == todo \cap DOMAIN refs
  IN IF S = {} THEN [pass EXCEPT !.pc = "done", !.todo = {}]
     ELSE [pass EXCEPT !.pc = "getPage", !.page = SetMin(S), !.elem = refs[SetMin(S)],
                       !.todo = {x \in todo : x > SetMin(S)}]

TextEffectFires(nDoc, nQuery, nScale, nRot, q) ==
  /\ nDoc # NoDoc
  /\ \/ nDoc # pdfDoc
     \/ nQuery # searchQuery
     \/ nScale # scale
     \/ nRot # rotation
     \/ PrsTouched(q)

NewPass(nDoc, nQuery, nScale, nRot, m, refs) ==
  PassAdvance([doc |-> nDoc, query |-> nQuery, scale |-> nScale, rotation |-> nRot,
               page |-> 0, elem |-> 0, todo |-> {}, pc |-> "start"],
              {p \in DOMAIN m : m[p].rendered}, refs)

(***************************************************************************)
(* Effect: thumbnail generation (deps pdfDoc, showThumbnails,              *)
(* thumbnails.length, pdfArrayBuffer, currentPassword)                     *)
(***************************************************************************)
ThumbEffectFires(nDoc, nShow, nThumbs, nBuf) ==
  \/ nDoc # pdfDoc
  \/ nShow # showThumbnails
  \/ Len(nThumbs) # Len(thumbnails)
  \/ nBuf # pdfArrayBuffer

\* the cleanup of the previous invocation: cancelled = true
CancelAll(runs) == [i \in 1..Len(runs) |-> [runs[i] EXCEPT !.cancelled = TRUE]]

\* the effect body starts a run unless it returns early
ThumbEffectStarts(nDoc, nShow, nThumbs) ==
  /\ nDoc # NoDoc
  /\ nShow
  /\ Len(nThumbs) # NumPages(nDoc.file)

\* a restarted run beginning at the first page again
NewThumbRun_FromFirstPage(nDoc, nThumbs, nBuf) ==
  [doc |-> nDoc, buf |-> nBuf, pageNum |-> 1, pc |-> "yield",
   cancelled |-> FALSE, heavy |-> FALSE]

NewThumbRun(nDoc, nThumbs, nBuf) ==
  [doc |-> nDoc, buf |-> nBuf, pageNum |-> Len(nThumbs) + 1, pc |-> "yield",
   cancelled |-> FALSE, heavy |-> FALSE]

\* startPage can exceed numPages: the loop body then never runs
ThumbLoopEnters(nDoc, nThumbs) == Len(nThumbs) + 1 <= NumPages(nDoc.file)

(***************************************************************************)
(* Effect: search debounce (deps searchQuery, performSearch)               *)
(***************************************************************************)
\* the debounce effect with the query missing from its dependencies
SearchEffectFires_DocOnly(nDoc, nQuery) == nDoc # pdfDoc

SearchEffectFires(nDoc, nQuery) == nDoc # pdfDoc \/ nQuery # searchQuery

(***************************************************************************)
(* A commit: the queued updates q are applied in order, the page elements  *)
(* are mounted or unmounted, and the effects whose dependencies changed    *)
(* run.  Updates that effects queue while running (the reset of the render *)
(* states, isGeneratingThumbnails) are rendered in the same step.          *)
(***************************************************************************)
CommitWith(q) ==
  LET nDoc == Fold(ApplyDoc, pdfDoc, q)
      nTotal == Fold(ApplyTotalPages, totalPages, q)
      nBuf == Fold(ApplyBuf, pdfArrayBuffer, q)
      nScale == Fold(ApplyScale, scale, q)
      nRot == Fold(ApplyRotation, rotation, q)
      nQuery == Fold(ApplyQuery, searchQuery, q)
      nShow == Fold(ApplyShowThumbnails, showThumbnails, q)
      nThumbs == Fold(ApplyThumbnails, thumbnails, q)
      nGen == Fold(ApplyIsGenerating, isGeneratingThumbnails, q)
      m1 == Fold(ApplyPRS, pageRenderStates, q)
      refs == MountedRefs(nDoc, nTotal)
      pass == NewPass(nDoc, nQuery, nScale, nRot, m1, refs)
      spawnPass == TextEffectFires(nDoc, nQuery, nScale, nRot, q) /\ pass.pc # "done"
      thumbFires == ThumbEffectFires(nDoc, nShow, nThumbs, nBuf)
      thumbStarts == thumbFires /\ ThumbEffectStarts(nDoc, nShow, nThumbs)
      thumbEnters == thumbStarts /\ ThumbLoopEnters(nDoc, nThumbs)
  IN /\ spawnPass => Len(textPasses) < MaxPasses
     /\ thumbEnters => Len(thumbRuns) < MaxThumbRuns
     /\ pdfDoc' = nDoc
     /\ totalPages' = nTotal
     /\ pdfArrayBuffer' = nBuf
     /\ scale' = nScale
     /\ rotation' = nRot
     /\ searchQuery' = nQuery
     /\ error' = Fold(ApplyError, error, q)
     /\ loading' = Fold(ApplyLoading, loading, q)
     /\ showThumbnails' = nShow
     /\ thumbnails' = nThumbs
     /\ searchResults' = Fold(ApplySearchResults, searchResults, q)
     /\ currentMatchIndex' = Fold(ApplyMatchIndex, currentMatchIndex, q)
     /\ isSearching' = Fold(ApplyIsSearching, isSearching, q)
     /\ pageRenderStates' = IF ResetEffectFires(nDoc, nScale, nRot) THEN EmptyMap ELSE m1
     /\ pendingUpdates' = << >>
     /\ prompt' = Fold(ApplyPrompt, prompt, q)
     /\ pageRefsMap' = refs
     /\ canvas' = MountedCanvas(refs)
     /\ textLayer' = MountedTextLayer(refs)
     /\ textPasses' = IF spawnPass THEN Append(textPasses, pass) ELSE textPasses
     /\ thumbRuns' = IF ~thumbFires THEN thumbRuns
                     ELSE IF thumbEnters
                          THEN Append(CancelAll(thumbRuns), NewThumbRun(nDoc, nThumbs, nBuf))
                          ELSE CancelAll(thumbRuns)
     /\ isGeneratingThumbnails' = IF thumbStarts THEN thumbEnters ELSE nGen
     /\ searchTimer' = IF SearchEffectFires(nDoc, nQuery)
                       THEN [set |-> TRUE, doc |-> nDoc, query |-> nQuery]
                       ELSE searchTimer

\* a render scheduled by updates queued from asynchronous continuations
Commit ==
  /\ pendingUpdates # << >>
  /\ CommitWith(pendingUpdates)
  /\ UNCHANGED << renderRuns, scans, loads, nLoads, nRuns, nChanges, helperVars >>

(***************************************************************************)
(* Init: the component after its first render and its mount effects (the   *)
(* debounce effect has set its first timer; no document is loaded).        *)
(***************************************************************************)
InitViewer ==
  /\ pdfDoc = NoDoc
  /\ totalPages = 0
  /\ pdfArrayBuffer = NoBuf
  /\ scale = InitialScale
  /\ rotation = 0
  /\ searchQuery = << >>
  /\ pageRenderStates = EmptyMap
  /\ error = ""
  /\ loading = FALSE
  /\ pendingUpdates = << >>
  /\ pageRefsMap = EmptyMap
  /\ canvas = EmptyMap
  /\ textLayer = EmptyMap
  /\ renderRuns = << >>
  /\ textPasses = << >>
  /\ showThumbnails = TRUE
  /\ thumbnails = << >>
  /\ isGeneratingThumbnails = FALSE
  /\ thumbRuns = << >>
  /\ searchResults = << >>
  /\ currentMatchIndex = -1
  /\ isSearching = FALSE
  /\ searchTimer = [set |-> TRUE, doc |-> NoDoc, query |-> << >>]
  /\ scans = << >>
  /\ loads = << >>
  /\ nLoads = 0
  /\ nRuns = 0
  /\ nChanges = 0
  /\ prompt = NoPrompt

Init ==
  /\ InitViewer
  /\ analysis = NoCall
  /\ pdfium = NoCall
  /\ synth = NoCall
  /\ single = NoCall
  /\ lib = NoCall

(***************************************************************************)
(* Loading a document: loadPdf, then loadPdfWithPassword                   *)
(***************************************************************************)
ZOOM_PRESETS == {2, 3, 4, 5, 6, 8}

\* handleFileChange / handleDrop -> loadPdf(file), up to its first await
LoadPdf(f) ==
  /\ nLoads < MaxLoads
  /\ CommitWith(pendingUpdates \o
       << U("pdfDoc", 0, NoDoc), U("rotation", 0, 0), U("searchQuery", 0, << >>),
          U("searchResults", 0, << >>), U("currentMatchIndex", 0, -1),
          U("showPasswordDialog", 0, FALSE), U("password", 0, NoPassword),
          U("passwordError", 0, ""),
          U("thumbnails", 0, << >>), U("pdfArrayBuffer", 0, NoBuf),
          U("currentPassword", 0, NoPassword),
          U("prs_reset", 0, 0) >>)
  /\ nLoads' = nLoads + 1
  /\ loads' = Append(loads, [id |-> nLoads + 1, file |-> f, pc |-> "arrayBuffer",
                             buf |-> nLoads + 1, password |-> NoPassword])
  /\ UNCHANGED << renderRuns, scans, nRuns, nChanges, helperVars >>

\* file.arrayBuffer() resolved: loadPdfWithPassword up to getDocument
LoadRead(i) ==
  /\ i \in 1..Len(loads)
  /\ loads[i].pc = "arrayBuffer"
  /\ loads' = ReplaceAt(loads, i, [loads[i] EXCEPT !.pc = "getDocument"])
  /\ pendingUpdates' = pendingUpdates \o << U("loading", 0, TRUE), U("error", 0, "") >>
  /\ UNCHANGED << prompt, pdfDoc, totalPages, pdfArrayBuffer, scale, rotation, searchQuery,
                  pageRenderStates, error, loading, pageRefsMap, canvas, textLayer,
                  renderRuns, textPasses, showThumbnails, thumbnails,
                  isGeneratingThumbnails, thumbRuns, searchResults, currentMatchIndex,
                  isSearching, searchTimer, scans, nLoads, nRuns, nChanges, helperVars >>

\* getDocument settled: the document is installed, or the load error is set
LoadParsed(i, ok) ==
  /\ i \in 1..Len(loads)
  /\ loads[i].pc = "getDocument"
  /\ loads' = RemoveAt(loads, i)
  /\ pendingUpdates' = pendingUpdates \o
       (IF ok
        THEN << U("pdfDoc", 0, [id |-> loads[i].id, file |-> loads[i].file]),
                U("totalPages", 0, NumPages(loads[i].file)),
                U("showPasswordDialog", 0, FALSE),
                U("password", 0, NoPassword),
                U("passwordError", 0, ""),
                U("pendingPdfData", 0, NoPending),
                U("pdfArrayBuffer", 0, loads[i].buf),
                U("currentPassword", 0, loads[i].password),
                U("prs_reset", 0, 0),
                U("loading", 0, FALSE) >>
        ELSE << U("error", 0, "load"),
                U("showPasswordDialog", 0, FALSE),
                U("pendingPdfData", 0, NoPending),
                U("loading", 0, FALSE) >>)
  /\ UNCHANGED << prompt, pdfDoc, totalPages, pdfArrayBuffer, scale, rotation, searchQuery,
                  pageRenderStates, error, loading, pageRefsMap, canvas, textLayer,
                  renderRuns, textPasses, showThumbnails, thumbnails,
                  isGeneratingThumbnails, thumbRuns, searchResults, currentMatchIndex,
                  isSearching, searchTimer, scans, nLoads, nRuns, nChanges, helperVars >>

(***************************************************************************)
(* Toolbar handlers.  The toolbar exists only while a document is set.     *)
(***************************************************************************)
UserChange(u) ==
  /\ pdfDoc # NoDoc
  /\ nChanges < MaxParamChanges
  /\ CommitWith(Append(pendingUpdates, u))
  /\ nChanges' = nChanges + 1
  /\ UNCHANGED << renderRuns, scans, loads, nLoads, nRuns, helperVars >>

ZoomIn == scale < MAX_ZOOM /\ UserChange(U("zoomIn", 0, 0))
ZoomOut == scale > MIN_ZOOM /\ UserChange(U("zoomOut", 0, 0))
HandleZoomChange(v) == v \in ZOOM_PRESETS /\ v # scale /\ UserChange(U("scale", 0, v))
RotateClockwise == UserChange(U("rotateClockwise", 0, 0))
RotateCounterClockwise == UserChange(U("rotateCounterClockwise", 0, 0))

HandleSearchChange(v) ==
  /\ pdfDoc # NoDoc
  /\ v \in SearchQueries
  /\ v # searchQuery
  /\ CommitWith(Append(pendingUpdates, U("searchQuery", 0, v)))
  /\ UNCHANGED << renderRuns, scans, loads, nLoads, nRuns, nChanges, helperVars >>

ToggleThumbnails ==
  /\ pdfDoc # NoDoc
  /\ CommitWith(Append(pendingUpdates, U("toggleThumbnails", 0, 0)))
  /\ UNCHANGED << renderRuns, scans, loads, nLoads, nRuns, nChanges, helperVars >>

(***************************************************************************)
(* renderSinglePage.  A run is one invocation; it keeps what its closure   *)
(* captured (document, byte snapshot, scale, rotation, query) and the      *)
(* container it looked up when it was invoked.                             *)
(***************************************************************************)
RunFrame ==
  UNCHANGED << prompt, pdfDoc, totalPages, pdfArrayBuffer, scale, rotation, searchQuery,
               pageRenderStates, error, loading, pageRefsMap, textPasses,
               showThumbnails, thumbnails, isGeneratingThumbnails, thumbRuns,
               searchResults, currentMatchIndex, isSearching, searchTimer, scans,
               loads, nLoads, nChanges, helperVars >>

StepFrame == RunFrame /\ UNCHANGED nRuns

\* the early returns of renderSinglePage
RenderSkips(p) ==
  \/ pdfDoc = NoDoc
  \/ pdfArrayBuffer = NoBuf
  \/ ~MapHas(pageRefsMap, p)
  \/ IsRendered(pageRenderStates, p)
  \/ IsRendering(pageRenderStates, p)

NewRun(p) ==
  [page |-> p, doc |-> pdfDoc, buf |-> pdfArrayBuffer, scale |-> scale,
   rotation |-> rotation, query |-> searchQuery, elem |-> pageRefsMap[p],
   pc |-> "getPage", heavy |-> FALSE, usedPdfium |-> FALSE, pdfiumFailed |-> FALSE]

\* renderSinglePage(p) up to its first await
RenderSinglePage(p) ==
  IF RenderSkips(p)
  THEN UNCHANGED << renderRuns, nRuns, pendingUpdates, canvas, textLayer >>
  ELSE /\ nRuns < MaxRuns
       /\ nRuns' = nRuns + 1
       /\ pendingUpdates' = Append(pendingUpdates, U("prs_set", p, PRS(FALSE, TRUE, FALSE)))
       /\ renderRuns' = Append(renderRuns, NewRun(p))
       /\ UNCHANGED << canvas, textLayer >>

\* the IntersectionObserver reports page p intersecting; the observer exists
\* while a document is set and observes the mounted containers
ObserverCallback(p) ==
  /\ pdfDoc # NoDoc
  /\ MapHas(pageRefsMap, p)
  /\ RenderSinglePage(p)
  /\ RunFrame

CanvasWrite(cv, run, bm) ==
  IF Attached(pageRefsMap, run.page, run.elem) THEN [cv EXCEPT ![run.page] = bm] ELSE cv

\* renderTextLayerToElement up to its await: the layer is emptied
TextClear(tl, p, elem) ==
  IF Attached(pageRefsMap, p, elem) THEN [tl EXCEPT ![p] = << >>] ELSE tl

\* renderTextLayerToElement after its await: the spans are appended
TextAppend(tl, p, elem, g) ==
  IF Attached(pageRefsMap, p, elem) THEN [tl EXCEPT ![p] = Append(@, g)] ELSE tl

\* the catch of renderSinglePage also reporting through setError
RunFails_SetsError(i) ==
  /\ pendingUpdates' = pendingUpdates \o
       << U("prs_set", renderRuns[i].page, PRS(FALSE, FALSE, FALSE)),
          U("error", 0, "render") >>
  /\ renderRuns' = RemoveAt(renderRuns, i)

\* the catch of renderSinglePage: the page is set back to not rendered
RunFails(i) ==
  /\ pendingUpdates' = Append(pendingUpdates,
                              U("prs_set", renderRuns[i].page, PRS(FALSE, FALSE, FALSE)))
  /\ renderRuns' = RemoveAt(renderRuns, i)

\* the pdf.js branch up to its await: the canvas is resized (and so emptied);
\* page.render is awaited if a 2D context is obtained, else the text layer is
PrimaryStarts(i, run, ctx) ==
  /\ canvas' = CanvasWrite(canvas, run, Bitmap("blank", run))
  /\ IF ctx
     THEN /\ renderRuns' = ReplaceAt(renderRuns, i, [run EXCEPT !.pc = "render"])
          /\ UNCHANGED textLayer
     ELSE /\ renderRuns' = ReplaceAt(renderRuns, i, [run EXCEPT !.pc = "textPrimary"])
          /\ textLayer' = TextClear(textLayer, run.page, run.elem)
  /\ UNCHANGED pendingUpdates

\* pdfDoc.getPage settled
GetPageDone(i, ok) ==
  /\ i \in 1..Len(renderRuns)
  /\ renderRuns[i].pc = "getPage"
  /\ IF ok
     THEN /\ renderRuns' = ReplaceAt(renderRuns, i, [renderRuns[i] EXCEPT !.pc = "analyze"])
          /\ UNCHANGED pendingUpdates
     ELSE RunFails(i)
  /\ UNCHANGED << canvas, textLayer >>
  /\ StepFrame

\* the pdf.js branch entered straight after the analysis, without yieldToMain
AnalyzeDone_NoYield(i, ok, heavy) ==
  /\ i \in 1..Len(renderRuns)
  /\ renderRuns[i].pc = "analyze"
  /\ IF ok
     THEN /\ IF heavy
             THEN /\ renderRuns' = ReplaceAt(renderRuns, i,
                                     [renderRuns[i] EXCEPT !.pc = "pdfium", !.heavy = TRUE])
                  /\ UNCHANGED canvas
             ELSE /\ renderRuns' = ReplaceAt(renderRuns, i,
                                     [renderRuns[i] EXCEPT !.pc = "render"])
                  /\ canvas' = CanvasWrite(canvas, renderRuns[i],
                                           Bitmap("blank", renderRuns[i]))
          /\ UNCHANGED pendingUpdates
     ELSE /\ RunFails(i)
          /\ UNCHANGED canvas
  /\ UNCHANGED textLayer
  /\ StepFrame

\* analyzePageComplexity settled, with its verdict
AnalyzeDone(i, ok, heavy) ==
  /\ i \in 1..Len(renderRuns)
  /\ renderRuns[i].pc = "analyze"
  /\ IF ok
     THEN /\ renderRuns' = ReplaceAt(renderRuns, i,
                             [renderRuns[i] EXCEPT !.pc = "yield", !.heavy = heavy])
          /\ UNCHANGED pendingUpdates
     ELSE RunFails(i)
  /\ UNCHANGED << canvas, textLayer >>
  /\ StepFrame

\* where a run goes after yieldToMain: PDFium for a heavy page, else pdf.js
UsesFallback(run) == run.heavy

\* yieldToMain resolved
YieldDone(i, ctx) ==
  /\ i \in 1..Len(renderRuns)
  /\ renderRuns[i].pc = "yield"
  /\ IF UsesFallback(renderRuns[i])
     THEN /\ renderRuns' = ReplaceAt(renderRuns, i, [renderRuns[i] EXCEPT !.pc = "pdfium"])
          /\ UNCHANGED << pendingUpdates, canvas, textLayer >>
     ELSE PrimaryStarts(i, renderRuns[i], ctx)
  /\ StepFrame

\* what the catch around the PDFium branch leaves of the run
AfterPdfiumError(run) == [run EXCEPT !.pdfiumFailed = TRUE]

\* faulty variant: an error of renderPageWithPdfium reaches the outer catch
PdfiumDone_ErrorPropagates(i, ok, ctx) ==
  /\ i \in 1..Len(renderRuns)
  /\ renderRuns[i].pc = "pdfium"
  /\ IF ok
     THEN /\ canvas' = CanvasWrite(canvas, renderRuns[i],
                         Bitmap(IF ctx THEN "fallback" ELSE "blank", renderRuns[i]))
          /\ textLayer' = TextClear(textLayer, renderRuns[i].page, renderRuns[i].elem)
          /\ renderRuns' = ReplaceAt(renderRuns, i,
                             [renderRuns[i] EXCEPT !.pc = "textFallback"])
          /\ UNCHANGED pendingUpdates
     ELSE /\ RunFails(i)
          /\ UNCHANGED << canvas, textLayer >>
  /\ StepFrame

\* renderPageWithPdfium settled
PdfiumDone(i, ok, ctx) ==
  /\ i \in 1..Len(renderRuns)
  /\ renderRuns[i].pc = "pdfium"
  /\ IF ok
     THEN /\ canvas' = CanvasWrite(canvas, renderRuns[i],
                         Bitmap(IF ctx THEN "fallback" ELSE "blank", renderRuns[i]))
          /\ textLayer' = TextClear(textLayer, renderRuns[i].page, renderRuns[i].elem)
          /\ renderRuns' = ReplaceAt(renderRuns, i,
                             [renderRuns[i] EXCEPT !.pc = "textFallback"])
          /\ UNCHANGED pendingUpdates
     ELSE PrimaryStarts(i, AfterPdfiumError(renderRuns[i]), ctx)
  /\ StepFrame

\* faulty variant: the final commit leaves the rendering mark set
RunCompletes_LeavesRendering(i, usedPdfium) ==
  /\ pendingUpdates' = Append(pendingUpdates,
                              U("prs_set", renderRuns[i].page, PRS(TRUE, TRUE, usedPdfium)))
  /\ renderRuns' = RemoveAt(renderRuns, i)

\* the final commit of a run: the page is rendered
RunCompletes(i, usedPdfium) ==
  /\ pendingUpdates' = Append(pendingUpdates,
                              U("prs_set", renderRuns[i].page, PRS(TRUE, FALSE, usedPdfium)))
  /\ renderRuns' = RemoveAt(renderRuns, i)

\* faulty variant: the PDFium branch ends without filling the text layer
TextFallbackDone_NoTextLayer(i, ok, ctx) ==
  /\ i \in 1..Len(renderRuns)
  /\ renderRuns[i].pc = "textFallback"
  /\ IF ok
     THEN /\ RunCompletes(i, TRUE)
          /\ UNCHANGED << canvas, textLayer >>
     ELSE PrimaryStarts(i, AfterPdfiumError(renderRuns[i]), ctx)
  /\ StepFrame

\* the text layer of the PDFium branch settled
TextFallbackDone(i, ok, ctx) ==
  /\ i \in 1..Len(renderRuns)
  /\ renderRuns[i].pc = "textFallback"
  /\ IF ok
     THEN /\ textLayer' = TextAppend(textLayer, renderRuns[i].page, renderRuns[i].elem,
                                     SpanGroup(renderRuns[i]))
          /\ RunCompletes(i, TRUE)
          /\ UNCHANGED canvas
     ELSE PrimaryStarts(i, AfterPdfiumError(renderRuns[i]), ctx)
  /\ StepFrame

\* page.render settled
PrimaryDone(i, ok) ==
  /\ i \in 1..Len(renderRuns)
  /\ renderRuns[i].pc = "render"
  /\ IF ok
     THEN /\ canvas' = CanvasWrite(canvas, renderRuns[i], Bitmap("primary", renderRuns[i]))
          /\ textLayer' = TextClear(textLayer, renderRuns[i].page, renderRuns[i].elem)
          /\ renderRuns' = ReplaceAt(renderRuns, i,
                             [renderRuns[i] EXCEPT !.pc = "textPrimary"])
          /\ UNCHANGED pendingUpdates
     ELSE /\ RunFails(i)
          /\ UNCHANGED << canvas, textLayer >>
  /\ StepFrame

\* the text layer of the pdf.js branch settled
TextPrimaryDone(i, ok) ==
  /\ i \in 1..Len(renderRuns)
  /\ renderRuns[i].pc = "textPrimary"
  /\ IF ok
     THEN /\ textLayer' = TextAppend(textLayer, renderRuns[i].page, renderRuns[i].elem,
                                     SpanGroup(renderRuns[i]))
          /\ RunCompletes(i, renderRuns[i].usedPdfium)
     ELSE /\ RunFails(i)
          /\ UNCHANGED textLayer
  /\ UNCHANGED canvas
  /\ StepFrame

(***************************************************************************)
(* updateTextLayers: one pass over the pages that were rendered            *)
(***************************************************************************)
PassFrame ==
  UNCHANGED << prompt, pdfDoc, totalPages, pdfArrayBuffer, scale, rotation, searchQuery,
               pageRenderStates, error, loading, pendingUpdates, pageRefsMap, canvas,
               renderRuns, showThumbnails, thumbnails, isGeneratingThumbnails,
               thumbRuns, searchResults, currentMatchIndex, isSearching, searchTimer,
               scans, loads, nLoads, nRuns, nChanges, helperVars >>

PassContinues(k, pass) ==
  LET nxt == PassAdvance(pass, pass.todo, pageRefsMap)
  IN textPasses' = IF nxt.pc = "done" THEN RemoveAt(textPasses, k)
                   ELSE ReplaceAt(textPasses, k, nxt)

\* pdfDoc.getPage settled inside the pass
PassGetPageDone(k, ok) ==
  /\ k \in 1..Len(textPasses)
  /\ textPasses[k].pc = "getPage"
  /\ IF ok
     THEN /\ textLayer' = TextClear(textLayer, textPasses[k].page, textPasses[k].elem)
          /\ textPasses' = ReplaceAt(textPasses, k, [textPasses[k] EXCEPT !.pc = "text"])
     ELSE /\ PassContinues(k, textPasses[k])
          /\ UNCHANGED textLayer
  /\ PassFrame

\* renderTextLayerToElement settled inside the pass
PassTextDone(k, ok) ==
  /\ k \in 1..Len(textPasses)
  /\ textPasses[k].pc = "text"
  /\ textLayer' = IF ok
                  THEN TextAppend(textLayer, textPasses[k].page, textPasses[k].elem,
                                  SpanGroup(textPasses[k]))
                  ELSE textLayer
  /\ PassContinues(k, textPasses[k])
  /\ PassFrame

(***************************************************************************)
(* Specifications                                                          *)
(***************************************************************************)
Pages == 1..MaxPages
LoadIds == 1..MaxLoads
RunIds == 1..MaxRuns
PassIds == 1..MaxPasses

LoadSettles ==
  \/ \E i \in LoadIds : LoadRead(i)
  \/ \E i \in LoadIds, ok \in BOOLEAN : LoadParsed(i, ok)

LoadStep ==
  \/ \E f \in Files : LoadPdf(f)
  \/ LoadSettles

\* a session in which a single file is opened
FirstLoadStep ==
  \/ \E f \in Files : nLoads < MaxSessionLoads /\ LoadPdf(f)
  \/ LoadSettles

ZoomStep ==
  \/ ZoomIn
  \/ ZoomOut
  \/ \E v \in ZOOM_PRESETS : HandleZoomChange(v)
  \/ RotateClockwise
  \/ RotateCounterClockwise

QueryStep == \E v \in Queries : HandleSearchChange(v)

RenderStep ==
  \/ \E p \in Pages : ObserverCallback(p)
  \/ \E i \in RunIds, ok \in BOOLEAN : GetPageDone(i, ok)
  \/ \E i \in RunIds, ok \in BOOLEAN, heavy \in BOOLEAN : AnalyzeDone(i, ok, heavy)
  \/ \E i \in RunIds, ctx \in BOOLEAN : YieldDone(i, ctx)
  \/ \E i \in RunIds, ok \in BOOLEAN, ctx \in BOOLEAN : PdfiumDone(i, ok, ctx)
  \/ \E i \in RunIds, ok \in BOOLEAN, ctx \in BOOLEAN : TextFallbackDone(i, ok, ctx)
  \/ \E i \in RunIds, ok \in BOOLEAN : PrimaryDone(i, ok)
  \/ \E i \in RunIds, ok \in BOOLEAN : TextPrimaryDone(i, ok)
  \/ \E k \in PassIds, ok \in BOOLEAN : PassGetPageDone(k, ok)
  \/ \E k \in PassIds, ok \in BOOLEAN : PassTextDone(k, ok)

\* The render orchestration under scale and rotation changes: one file is
\* opened, the toolbar changes scale and rotation, pages become visible.
NextRender == FirstLoadStep \/ ZoomStep \/ Commit \/ RenderStep
SpecRender == Init /\ [][NextRender]_vars

\* The render orchestration under query changes: one file is opened, the
\* search box changes the query, pages become visible.
NextQuery == FirstLoadStep \/ QueryStep \/ Commit \/ RenderStep
SpecQuery == Init /\ [][NextQuery]_vars

(***************************************************************************)
(* Thumbnail generation: generateThumbnails.  A run is one invocation of   *)
(* the effect body; cancelled is the flag its cleanup sets.                *)
(***************************************************************************)
ThumbFrame ==
  UNCHANGED << prompt, pdfDoc, totalPages, pdfArrayBuffer, scale, rotation, searchQuery,
               pageRenderStates, error, loading, pageRefsMap, canvas, textLayer,
               renderRuns, textPasses, showThumbnails, thumbnails,
               isGeneratingThumbnails, searchResults, currentMatchIndex, isSearching,
               searchTimer, scans, loads, nLoads, nRuns, nChanges, helperVars >>

ThumbEntry(run, kind) == [page |-> run.pageNum, doc |-> run.doc.id, kind |-> kind]

\* if (!cancelled) setThumbnails((prev) => [...prev, entry])
ThumbAppend(q, run, kind) ==
  IF run.cancelled THEN q ELSE Append(q, U("thumb_append", 0, ThumbEntry(run, kind)))

\* the finally of generateThumbnails
ThumbFinally(q, run) ==
  IF run.cancelled THEN q ELSE Append(q, U("isGeneratingThumbnails", 0, FALSE))

\* an error leaves the loop through the finally: the run is over
ThumbAborts(j) ==
  /\ pendingUpdates' = ThumbFinally(pendingUpdates, thumbRuns[j])
  /\ thumbRuns' = RemoveAt(thumbRuns, j)

\* the end of one loop body (q holds what it queued): the next page is
\* taken, unless the pages are exhausted or the run is cancelled
ThumbNextPage(j, q) ==
  LET run == thumbRuns[j]
  IN IF run.pageNum + 1 > NumPages(run.doc.file) \/ run.cancelled
     THEN /\ pendingUpdates' = ThumbFinally(q, run)
          /\ thumbRuns' = RemoveAt(thumbRuns, j)
     ELSE /\ pendingUpdates' = q
          /\ thumbRuns' = ReplaceAt(thumbRuns, j,
                            [run EXCEPT !.pageNum = run.pageNum + 1, !.pc = "yield"])

\* yieldToMain resolved
ThumbYieldDone(j) ==
  /\ j \in 1..Len(thumbRuns)
  /\ thumbRuns[j].pc = "yield"
  /\ thumbRuns' = ReplaceAt(thumbRuns, j, [thumbRuns[j] EXCEPT !.pc = "getPage"])
  /\ UNCHANGED pendingUpdates
  /\ ThumbFrame

\* pdfDoc.getPage settled
ThumbGetPageDone(j, ok) ==
  /\ j \in 1..Len(thumbRuns)
  /\ thumbRuns[j].pc = "getPage"
  /\ IF ok
     THEN /\ thumbRuns' = ReplaceAt(thumbRuns, j, [thumbRuns[j] EXCEPT !.pc = "analyze"])
          /\ UNCHANGED pendingUpdates
     ELSE ThumbAborts(j)
  /\ ThumbFrame

\* analyzePageComplexity settled, with its verdict; ctx: whether the
\* OffscreenCanvas of a page that is not heavy yields a 2D context
ThumbAnalyzeDone(j, ok, heavy, ctx) ==
  /\ j \in 1..Len(thumbRuns)
  /\ thumbRuns[j].pc = "analyze"
  /\ IF ~ok THEN ThumbAborts(j)
     ELSE IF heavy
     THEN IF thumbRuns[j].buf # NoBuf
          THEN /\ thumbRuns' = ReplaceAt(thumbRuns, j,
                                 [thumbRuns[j] EXCEPT !.pc = "pdfium", !.heavy = TRUE])
               /\ UNCHANGED pendingUpdates
          ELSE ThumbNextPage(j, ThumbAppend(pendingUpdates, thumbRuns[j], "skipped"))
     ELSE IF ctx
          THEN /\ thumbRuns' = ReplaceAt(thumbRuns, j,
                                 [thumbRuns[j] EXCEPT !.pc = "render", !.heavy = FALSE])
               /\ UNCHANGED pendingUpdates
          ELSE ThumbNextPage(j, pendingUpdates)
  /\ ThumbFrame

\* renderThumbnailWithPdfium failing sends the page to the Primary path
ThumbPdfiumDone_FailureUsesPrimary(j, ok) ==
  /\ j \in 1..Len(thumbRuns)
  /\ thumbRuns[j].pc = "pdfium"
  /\ IF ok
     THEN ThumbNextPage(j, ThumbAppend(pendingUpdates, thumbRuns[j], "fallback"))
     ELSE /\ thumbRuns' = ReplaceAt(thumbRuns, j, [thumbRuns[j] EXCEPT !.pc = "render"])
          /\ UNCHANGED pendingUpdates
  /\ ThumbFrame

\* renderThumbnailWithPdfium settled
ThumbPdfiumDone(j, ok) ==
  /\ j \in 1..Len(thumbRuns)
  /\ thumbRuns[j].pc = "pdfium"
  /\ ThumbNextPage(j, ThumbAppend(pendingUpdates, thumbRuns[j],
                                  IF ok THEN "fallback" ELSE "skipped"))
  /\ ThumbFrame

\* page.render settled
ThumbRenderDone(j, ok) ==
  /\ j \in 1..Len(thumbRuns)
  /\ thumbRuns[j].pc = "render"
  /\ IF ok
     THEN /\ thumbRuns' = ReplaceAt(thumbRuns, j, [thumbRuns[j] EXCEPT !.pc = "blob"])
          /\ UNCHANGED pendingUpdates
     ELSE ThumbAborts(j)
  /\ ThumbFrame

\* offscreen.convertToBlob settled
ThumbBlobDone(j, ok) ==
  /\ j \in 1..Len(thumbRuns)
  /\ thumbRuns[j].pc = "blob"
  /\ IF ok
     THEN /\ thumbRuns' = ReplaceAt(thumbRuns, j, [thumbRuns[j] EXCEPT !.pc = "dataUrl"])
          /\ UNCHANGED pendingUpdates
     ELSE ThumbAborts(j)
  /\ ThumbFrame

\* blobToDataUrl settled
ThumbDataUrlDone(j, ok) ==
  /\ j \in 1..Len(thumbRuns)
  /\ thumbRuns[j].pc = "dataUrl"
  /\ IF ok
     THEN ThumbNextPage(j, ThumbAppend(pendingUpdates, thumbRuns[j], "preview"))
     ELSE ThumbAborts(j)
  /\ ThumbFrame

ThumbIds == 1..MaxThumbRuns

ThumbStep ==
  \/ \E j \in ThumbIds : ThumbYieldDone(j)
  \/ \E j \in ThumbIds, ok \in BOOLEAN : ThumbGetPageDone(j, ok)
  \/ \E j \in ThumbIds, ok \in BOOLEAN, heavy \in BOOLEAN, ctx \in BOOLEAN :
       ThumbAnalyzeDone(j, ok, heavy, ctx)
  \/ \E j \in ThumbIds, ok \in BOOLEAN : ThumbPdfiumDone(j, ok)
  \/ \E j \in ThumbIds, ok \in BOOLEAN : ThumbRenderDone(j, ok)
  \/ \E j \in ThumbIds, ok \in BOOLEAN : ThumbBlobDone(j, ok)
  \/ \E j \in ThumbIds, ok \in BOOLEAN : ThumbDataUrlDone(j, ok)

\* The thumbnail pipeline: files are opened and replaced, the panel is
\* hidden and shown, the generation runs take their steps.
NextThumbs == LoadStep \/ ToggleThumbnails \/ Commit \/ ThumbStep
SpecThumbs == Init /\ [][NextThumbs]_vars

(***************************************************************************)
(* Search: the debounce timer and performSearch.  A scan is one invocation *)
(* of performSearch; it keeps the document and the query of its closure.   *)
(***************************************************************************)
SearchFrame ==
  UNCHANGED << prompt, pdfDoc, totalPages, pdfArrayBuffer, scale, rotation, searchQuery,
               pageRenderStates, error, loading, pageRefsMap, canvas, textLayer,
               renderRuns, textPasses, showThumbnails, thumbnails,
               isGeneratingThumbnails, thumbRuns, searchResults, currentMatchIndex,
               isSearching, loads, nLoads, nRuns, nChanges, helperVars >>

\* the text items of the pages of the files, as sequences of characters
PageText(f, p) ==
  IF f = 1
  THEN IF p = 1 THEN << << "A", "b" >>, << "b" >> >> ELSE << << "b", "a" >> >>
  ELSE << << "a" >>, << "B" >> >>

\* The code units String.prototype.toLowerCase yields for one code unit.  The
\* character "I_dot" stands for U+0130, whose lower case is the two code units
\* "i" and "dot" (U+0069 U+0307): lowercasing does not keep the length.
ToLowerChar(c) ==
  CASE c = "A" -> << "a" >>
    [] c = "B" -> << "b" >>
    [] c = "C" -> << "c" >>
    [] c = "I_dot" -> << "i", "dot" >>
    [] OTHER -> << c >>
\* faulty variant: the case of the text is kept
ToLowerCase_Identity(str) == str

ToLowerCase(str) == Fold(LAMBDA acc, c : acc \o ToLowerChar(c), << >>, str)

\* String.prototype.includes
Includes(str, sub) ==
  \E i \in 0..(Len(str) - Len(sub)) : SubSeq(str, i + 1, i + Len(sub)) = sub

\* searchQuery.trim() is empty
IsBlank(str) == \A i \in 1..Len(str) : str[i] = " "

SearchMatch(pageNum, itemIndex, text) ==
  [pageNum |-> pageNum, itemIndex |-> itemIndex, text |-> text]

\* textContent.items.forEach of performSearch, from item index i (0-based)
RECURSIVE PageMatches(_, _, _, _)
PageMatches(items, i, pageNum, query) ==
  IF i >= Len(items) THEN << >>
  ELSE (IF Includes(ToLowerCase(items[i + 1]), query)
        THEN << SearchMatch(pageNum, i, items[i + 1]) >>
        ELSE << >>) \o PageMatches(items, i + 1, pageNum, query)

NewScan(doc, query) ==
  [doc |-> doc, query |-> ToLowerCase(query), pageNum |-> 1, results |-> << >>,
   pc |-> "getPage"]

\* the debounce timer fires: performSearch runs up to its first await
TimerFires ==
  /\ searchTimer.set
  /\ searchTimer' = NoTimer
  /\ IF searchTimer.doc = NoDoc \/ IsBlank(searchTimer.query)
     THEN /\ pendingUpdates' = pendingUpdates \o
                 << U("searchResults", 0, << >>), U("currentMatchIndex", 0, -1) >>
          /\ UNCHANGED scans
     ELSE /\ Len(scans) < MaxScans
          /\ pendingUpdates' = Append(pendingUpdates, U("isSearching", 0, TRUE))
          /\ scans' = Append(scans, NewScan(searchTimer.doc, searchTimer.query))
  /\ SearchFrame

\* an error leaves performSearch through its finally
ScanAborts(k) ==
  /\ pendingUpdates' = Append(pendingUpdates, U("isSearching", 0, FALSE))
  /\ scans' = RemoveAt(scans, k)

\* pdfDoc.getPage settled
ScanGetPageDone(k, ok) ==
  /\ k \in 1..Len(scans)
  /\ scans[k].pc = "getPage"
  /\ IF ok
     THEN /\ scans' = ReplaceAt(scans, k, [scans[k] EXCEPT !.pc = "getTextContent"])
          /\ UNCHANGED pendingUpdates
     ELSE ScanAborts(k)
  /\ UNCHANGED searchTimer
  /\ SearchFrame

\* page.getTextContent settled
ScanTextDone(k, ok) ==
  /\ k \in 1..Len(scans)
  /\ scans[k].pc = "getTextContent"
  /\ IF ~ok THEN ScanAborts(k)
     ELSE LET scan == scans[k]
              results == scan.results \o
                PageMatches(PageText(scan.doc.file, scan.pageNum), 0, scan.pageNum,
                            scan.query)
          IN IF scan.pageNum + 1 > NumPages(scan.doc.file)
             THEN /\ pendingUpdates' = pendingUpdates \o
                        << U("searchResults", 0, results),
                           U("currentMatchIndex", 0, IF Len(results) > 0 THEN 0 ELSE -1),
                           U("isSearching", 0, FALSE) >>
                  /\ scans' = RemoveAt(scans, k)
             ELSE /\ scans' = ReplaceAt(scans, k,
                                [scan EXCEPT !.pageNum = scan.pageNum + 1,
                                             !.results = results, !.pc = "getPage"])
                  /\ UNCHANGED pendingUpdates
  /\ UNCHANGED searchTimer
  /\ SearchFrame

\* the % operator of JavaScript: the result has the sign of the dividend
JsRem(a, n) == IF a >= 0 THEN a % n ELSE 0 - ((0 - a) % n)

\* faulty variant: no wrap at the end of the list
NextIndex_NoWrap(i, n) == i + 1

\* nextIndex of goToNextMatch
NextIndex(i, n) == JsRem(i + 1, n)

\* prevIndex of goToPrevMatch
PrevIndex(i, n) == JsRem(i - 1 + n, n)

\* a navigation handler: nothing happens with an empty list, else the index
\* computed from the rendered list and index is set
Navigate(index) ==
  /\ pdfDoc # NoDoc
  /\ IF Len(searchResults) = 0
     THEN UNCHANGED << viewerVars, helperVars >>
     ELSE /\ CommitWith(Append(pendingUpdates, U("currentMatchIndex", 0, index)))
          /\ UNCHANGED << renderRuns, scans, loads, nLoads, nRuns, nChanges, helperVars >>

GoToNextMatch == Navigate(NextIndex(currentMatchIndex, Len(searchResults)))
GoToPrevMatch == Navigate(PrevIndex(currentMatchIndex, Len(searchResults)))

ScanIds == 1..MaxScans

NavStep == GoToNextMatch \/ GoToPrevMatch

SearchQueryStep == \E v \in SearchQueries : HandleSearchChange(v)

SearchStep ==
  \/ TimerFires
  \/ \E k \in ScanIds, ok \in BOOLEAN : ScanGetPageDone(k, ok)
  \/ \E k \in ScanIds, ok \in BOOLEAN : ScanTextDone(k, ok)

\* The search pipeline: one file is opened, the search box changes the
\* query, the debounce timer fires, the scans take their steps, the matches
\* are stepped through.
NextSearch == FirstLoadStep \/ SearchQueryStep \/ Commit \/ SearchStep \/ NavStep
SpecSearch == Init /\ [][NextSearch]_vars

Next ==
  \/ LoadStep
  \/ ZoomStep
  \/ QueryStep
  \/ ToggleThumbnails
  \/ Commit
  \/ RenderStep
  \/ ThumbStep
  \/ SearchStep
  \/ NavStep
Spec == Init /\ [][Next]_vars

(***************************************************************************)
(* Properties of the render orchestration                                  *)
(***************************************************************************)
RunIdx == 1..Len(renderRuns)

\* run i takes one of its steps
RunStepOf(i) ==
  \/ \E ok \in BOOLEAN : GetPageDone(i, ok)
  \/ \E ok \in BOOLEAN, heavy \in BOOLEAN : AnalyzeDone(i, ok, heavy)
  \/ \E ctx \in BOOLEAN : YieldDone(i, ctx)
  \/ \E ok \in BOOLEAN, ctx \in BOOLEAN : PdfiumDone(i, ok, ctx)
  \/ \E ok \in BOOLEAN, ctx \in BOOLEAN : TextFallbackDone(i, ok, ctx)
  \/ \E ok \in BOOLEAN : PrimaryDone(i, ok)
  \/ \E ok \in BOOLEAN : TextPrimaryDone(i, ok)

SameRequest(r1, r2) ==
  r1.doc = r2.doc /\ r1.scale = r2.scale /\ r1.rotation = r2.rotation

\* run i was started before a scale/rotation change or a document
\* replacement, and a run for the same page was started after it
Superseded(i) ==
  \E j \in RunIdx : /\ j > i
                    /\ renderRuns[j].page = renderRuns[i].page
                    /\ ~SameRequest(renderRuns[i], renderRuns[j])

\* C1: for every page, at most one invocation of renderSinglePage is in
\* flight (between marking the page rendering and its final state commit).
C1_AtMostOneRenderInFlight ==
  \A i \in RunIdx, j \in RunIdx :
    renderRuns[i].page = renderRuns[j].page => i = j

\* C2: once a newer request for the same page has started, the older render
\* commits nothing to pageRenderStates and nothing to the page's canvas.
C2_SupersededRunCommitsNothing ==
  [][\A i \in RunIdx :
       (Superseded(i) /\ RunStepOf(i)) =>
         (canvas' = canvas /\ pendingUpdates' = pendingUpdates)]_vars

AllIdle(m, n) == \A p \in 1..n : ~IsRendered(m, p) /\ ~IsRendering(m, p)

\* C3: every change of scale or rotation resets pageRenderStates: after it
\* every page of the document is neither rendered nor rendering.
C3_ScaleRotationChangeResets ==
  [][(scale' # scale \/ rotation' # rotation) =>
       (pageRenderStates' = EmptyMap /\ AllIdle(pageRenderStates', totalPages'))]_vars

\* a page rendered at the former scale has been set back to idle by a change:
\* its canvas still holds the bitmap of the former scale or rotation
C3_Witness ==
  /\ nChanges > 0
  /\ pageRenderStates = EmptyMap
  /\ \E p \in DOMAIN canvas :
       /\ canvas[p].kind # "blank"
       /\ canvas[p].scale # scale \/ canvas[p].rotation # rotation

RenderedPages(m) == {p \in DOMAIN m : m[p].rendered}
PassPages(pass) == {pass.page} \cup pass.todo

QueryOnlyChange ==
  /\ searchQuery' # searchQuery
  /\ pdfDoc' = pdfDoc
  /\ scale' = scale
  /\ rotation' = rotation

\* C4: a change of searchQuery alone leaves every page's render state as it
\* is (the states are those the queued updates give, nothing is reset), no
\* canvas is touched and no render is started; only a text-layer pass over
\* the pages that are rendered (and mounted) is started, with the new query.
\* A page that is rendered is never handed to a new render run.
C4_QueryChangeKeepsRenderStates ==
  [][/\ QueryOnlyChange =>
          /\ pageRenderStates' = Fold(ApplyPRS, pageRenderStates, pendingUpdates)
          /\ \A p \in RenderedPages(pageRenderStates) :
               ~PrsTouched(pendingUpdates) =>
                 /\ IsRendered(pageRenderStates', p)
                 /\ pageRenderStates'[p].usedPdfium = pageRenderStates[p].usedPdfium
          /\ canvas' = canvas
          /\ renderRuns' = renderRuns
          /\ IF RenderedPages(pageRenderStates') \cap DOMAIN pageRefsMap' = {}
             THEN textPasses' = textPasses
             ELSE /\ Len(textPasses') = Len(textPasses) + 1
                  /\ textPasses'[Len(textPasses')].query = searchQuery'
                  /\ PassPages(textPasses'[Len(textPasses')])
                       \subseteq RenderedPages(pageRenderStates')
                  /\ RenderedPages(pageRenderStates') \cap DOMAIN pageRefsMap'
                       \subseteq PassPages(textPasses'[Len(textPasses')])
     /\ Len(renderRuns') > Len(renderRuns) =>
          ~IsRendered(pageRenderStates, renderRuns'[Len(renderRuns')].page)]_vars

\* the query was changed while a page was rendered: the page is still
\* rendered, its canvas holds its bitmap, and a pass with the new query runs
C4_Witness ==
  \E p \in DOMAIN pageRenderStates :
    /\ IsRendered(pageRenderStates, p)
    /\ searchQuery # << >>
    /\ canvas[p].kind # "blank"
    /\ \E k \in 1..Len(textPasses) :
         textPasses[k].query = searchQuery /\ p \in PassPages(textPasses[k])

\* C5: while document, scale and rotation stay the same, a page that is
\* rendered stays rendered.
C5_RenderedStaysRendered ==
  [][(pdfDoc' = pdfDoc /\ scale' = scale /\ rotation' = rotation) =>
       \A p \in RenderedPages(pageRenderStates) : IsRendered(pageRenderStates', p)]_vars

\* C10: PDFium is awaited only by a run whose verdict is heavy and whose byte
\* snapshot is there; when PDFium throws, the run goes on with pdf.js and
\* queues no failure, the error message stays as it is, and a run whose
\* PDFium attempt threw and whose pdf.js render settles well ends rendered
\* with usedPdfium false.
C10_FallbackOnlyForHeavyAndRecovers ==
  [][\A i \in RunIdx :
       /\ renderRuns[i].pc \in {"pdfium", "textFallback"} =>
            (renderRuns[i].heavy /\ renderRuns[i].buf # NoBuf)
       /\ (\E ctx \in BOOLEAN : PdfiumDone(i, FALSE, ctx)) =>
            /\ Len(renderRuns') = Len(renderRuns)
            /\ renderRuns'[i].pc \in {"render", "textPrimary"}
            /\ renderRuns'[i].pdfiumFailed
            /\ pendingUpdates' = pendingUpdates
            /\ error' = error
       /\ (renderRuns[i].pdfiumFailed /\ TextPrimaryDone(i, TRUE)) =>
            pendingUpdates' = Append(pendingUpdates,
                                U("prs_set", renderRuns[i].page, PRS(TRUE, FALSE, FALSE)))
       /\ RunStepOf(i) => error' = error]_vars

\* a run whose PDFium attempt threw has rendered its page with pdf.js and is
\* about to end
C10_Witness ==
  \E i \in RunIdx :
    /\ renderRuns[i].pdfiumFailed
    /\ renderRuns[i].heavy
    /\ renderRuns[i].pc = "textPrimary"
    /\ MapHas(canvas, renderRuns[i].page)
    /\ canvas[renderRuns[i].page].kind = "primary"


(***************************************************************************)
(* Properties of the thumbnail pipeline                                    *)
(***************************************************************************)
ThumbStepOf(j) ==
  \/ ThumbYieldDone(j)
  \/ \E ok \in BOOLEAN : ThumbGetPageDone(j, ok)
  \/ \E ok \in BOOLEAN, heavy \in BOOLEAN, ctx \in BOOLEAN :
       ThumbAnalyzeDone(j, ok, heavy, ctx)
  \/ \E ok \in BOOLEAN : ThumbPdfiumDone(j, ok)
  \/ \E ok \in BOOLEAN : ThumbRenderDone(j, ok)
  \/ \E ok \in BOOLEAN : ThumbBlobDone(j, ok)
  \/ \E ok \in BOOLEAN : ThumbDataUrlDone(j, ok)

\* C6: in every reachable state the thumbnail list is no longer than the
\* page count of the active document, and entry i (counted from 0) is the
\* entry produced for page i+1: no page is passed over, none has two entries.
C6_ThumbnailsAreGapFreePrefix ==
  pdfDoc # NoDoc =>
    /\ Len(thumbnails) <= NumPages(pdfDoc.file)
    /\ \A i \in 1..Len(thumbnails) : thumbnails[i].page = i

\* C7: while the same document stays loaded, the entries of the thumbnail
\* list are kept (none removed or replaced), no page of the document is
\* appended a second time, a cancelled run queues no entry, and a run that
\* starts begins at page thumbnails.length + 1.
C7_EntriesKeptAndNeverRepeated ==
  [][(pdfDoc # NoDoc /\ pdfDoc' = pdfDoc) =>
       /\ Len(thumbnails') >= Len(thumbnails)
       /\ SubSeq(thumbnails', 1, Len(thumbnails)) = thumbnails
       /\ \A a, b \in 1..Len(thumbnails') :
            (thumbnails'[a].page = thumbnails'[b].page
               /\ thumbnails'[a].doc = thumbnails'[b].doc) => a = b
       /\ \A j \in ThumbIds :
            (j <= Len(thumbRuns) /\ thumbRuns[j].cancelled /\ ThumbStepOf(j))
              => Len(pendingUpdates') = Len(pendingUpdates)
       /\ \A j \in 1..Len(thumbRuns') :
            (j > Len(thumbRuns) /\ ~thumbRuns'[j].cancelled)
              => thumbRuns'[j].pageNum = Len(thumbnails') + 1]_vars

\* a step in which page k of run j fails: getPage, the analysis, the pdf.js
\* render or its encoding throws, or no 2D context is obtained
ThumbPageFails(j) ==
  \/ ThumbGetPageDone(j, FALSE)
  \/ \E heavy \in BOOLEAN, ctx \in BOOLEAN : ThumbAnalyzeDone(j, FALSE, heavy, ctx)
  \/ ThumbAnalyzeDone(j, TRUE, FALSE, FALSE)
  \/ ThumbRenderDone(j, FALSE)
  \/ ThumbBlobDone(j, FALSE)
  \/ ThumbDataUrlDone(j, FALSE)

\* C8: when page k of a generation that is not cancelled fails, a
\* placeholder entry for page k is queued and the generation goes on with
\* page k+1 (it ends only if k was the last page).
C8_FailedPageGetsPlaceholder ==
  [][\A j \in ThumbIds :
       (j <= Len(thumbRuns) /\ ~thumbRuns[j].cancelled /\ ThumbPageFails(j)) =>
         LET run == thumbRuns[j]
             n == Len(pendingUpdates)
             placeholder == /\ Len(pendingUpdates') > n
                            /\ pendingUpdates'[n + 1].t = "thumb_append"
                            /\ pendingUpdates'[n + 1].v = ThumbEntry(run, "skipped")
         IN IF run.pageNum < NumPages(run.doc.file)
            THEN /\ placeholder
                 /\ Len(pendingUpdates') = n + 1
                 /\ Len(thumbRuns') = Len(thumbRuns)
                 /\ thumbRuns'[j].pageNum = run.pageNum + 1
            ELSE /\ placeholder
                 /\ Len(pendingUpdates') = n + 2
                 /\ pendingUpdates'[n + 2].t = "isGeneratingThumbnails"]_vars

(***************************************************************************)
(* Properties of the search pipeline                                       *)
(***************************************************************************)
ScanPageFails(k) == ScanGetPageDone(k, FALSE) \/ ScanTextDone(k, FALSE)

\* C9: when fetching a page or extracting its text fails during a scan, the
\* scan continues with the remaining pages (it stays in flight unless the
\* page was the last, and then it publishes the matches it collected).
C9_ScanContinuesPastFailedPage ==
  [][\A k \in ScanIds :
       (k <= Len(scans) /\ ScanPageFails(k)) =>
         LET scan == scans[k]
         IN IF scan.pageNum < NumPages(scan.doc.file)
            THEN /\ Len(scans') = Len(scans)
                 /\ scans'[k].pageNum = scan.pageNum + 1
                 /\ scans'[k].results = scan.results
            ELSE \E i \in 1..Len(pendingUpdates') :
                   /\ i > Len(pendingUpdates)
                   /\ pendingUpdates'[i].t = "searchResults"
                   /\ pendingUpdates'[i].v = scan.results]_vars


(***************************************************************************)
(* analyzePageComplexity.  The page is given by what the function reads    *)
(* from it: the counts of its operator list and the fonts of its text      *)
(* items (distinct font names, in item order).  A font is described by     *)
(* whether its name contains "Type3" and whether the font object says so.  *)
(***************************************************************************)
AnalyzerFonts == [nameHasType3 : BOOLEAN, objIsType3 : BOOLEAN]

AnalyzerFontLists ==
  UNION { [1..n -> AnalyzerFonts] : n \in 0..MaxFonts }

\* fnArray holds at least the setFont and showText operations counted in it
AnalyzerPages ==
  { pg \in [operationCount : {0, 12, 1201, HEAVY_PAGE_THRESHOLD, HEAVY_PAGE_THRESHOLD + 1},
            fontCount : {0, 1, HEAVY_FONT_SWITCH_THRESHOLD, HEAVY_FONT_SWITCH_THRESHOLD + 1},
            textCount : {0, 10, 11, HEAVY_TEXT_THRESHOLD, HEAVY_TEXT_THRESHOLD + 1},
            fonts : AnalyzerFontLists] :
      pg.operationCount >= pg.fontCount + pg.textCount }

\* faulty variant: the threshold itself already counts as heavy
ExceedsTextThreshold_Inclusive(textCount) == textCount >= HEAVY_TEXT_THRESHOLD

\* the test of the text-count rule
ExceedsTextThreshold(textCount) == textCount > HEAVY_TEXT_THRESHOLD

\* one line of heavyReasons: the rule and the numbers its text shows
ReasonLine(rule, count, other) == [rule |-> rule, count |-> count, other |-> other]

\* isHeavy and heavyReason as the four if-statements compute them
HeavyVerdict(type3FontCount, textCount, fontCount, operationCount) ==
  LET hasType3Fonts == type3FontCount > 0
      estimatedType3Cost == IF hasType3Fonts THEN textCount * TYPE3_COST_MULTIPLIER ELSE 0
      c1 == hasType3Fonts /\ textCount > 10
      c2 == ExceedsTextThreshold(textCount)
      c3 == fontCount > HEAVY_FONT_SWITCH_THRESHOLD
      c4 == operationCount > HEAVY_PAGE_THRESHOLD
      h1 == IF c1 THEN TRUE ELSE FALSE
      h2 == IF c2 THEN TRUE ELSE h1
      h3 == IF c3 THEN TRUE ELSE h2
      h4 == IF c4 THEN TRUE ELSE h3
      r1 == IF c1 THEN << ReasonLine("type3", type3FontCount, estimatedType3Cost) >>
            ELSE << >>
      r2 == IF c2 THEN Append(r1, ReasonLine("text", textCount, HEAVY_TEXT_THRESHOLD))
            ELSE r1
      r3 == IF c3 THEN Append(r2, ReasonLine("font", fontCount, HEAVY_FONT_SWITCH_THRESHOLD))
            ELSE r2
      r4 == IF c4 THEN Append(r3, ReasonLine("ops", operationCount, HEAVY_PAGE_THRESHOLD))
            ELSE r3
  IN [isHeavy |-> h4,
      heavyReason |-> IF Len(r4) > 0 THEN [isNull |-> FALSE, lines |-> r4]
                      ELSE [isNull |-> TRUE, lines |-> << >>]]

NoVerdict == [isHeavy |-> FALSE, heavyReason |-> [isNull |-> TRUE, lines |-> << >>]]

\* an invocation on page pg; previous is what the invocation before it on
\* the same page returned (runNo counts the invocations)
NewAnalysis(pg, runNo, previous, previousClean) ==
  [pc |-> "getOperatorList", page |-> pg, fontsLeft |-> << >>, type3FontCount |-> 0,
   clean |-> TRUE, result |-> NoVerdict, runNo |-> runNo, previous |-> previous,
   previousClean |-> previousClean]

AnalyzerFrame == UNCHANGED << viewerVars, pdfium, synth, single, lib >>

\* the end of the function: the verdict is computed and returned
AnalysisReturns(a) ==
  [a EXCEPT !.pc = "done",
            !.result = HeavyVerdict(a.type3FontCount, a.page.textCount,
                                    a.page.fontCount, a.page.operationCount)]

\* page.getOperatorList settled
OperatorListDone(ok) ==
  /\ analysis.pc = "getOperatorList"
  /\ analysis' = [analysis EXCEPT !.pc = IF ok THEN "getTextContent" ELSE "threw",
                                  !.clean = ok]
  /\ AnalyzerFrame

\* page.getTextContent settled; its error is caught and logged
AnalyzerTextContentDone(ok) ==
  /\ analysis.pc = "getTextContent"
  /\ analysis' =
       IF ok /\ Len(analysis.page.fonts) > 0
       THEN [analysis EXCEPT !.pc = "font", !.fontsLeft = analysis.page.fonts]
       ELSE AnalysisReturns([analysis EXCEPT !.clean = analysis.clean /\ ok])
  /\ AnalyzerFrame

\* how the race of commonObjs.get against the 100 ms timer can end: the
\* callback delivers the font object, the timer wins, the callback
\* delivers nothing, or the lookup throws
LookupOutcomes == {"font", "timeout", "nothing", "error"}

\* isType3 of the font whose lookup settled: with the font object, without
\* it (the timer won or nothing was delivered), or after an error of the
\* lookup
FontIsType3(font, outcome) ==
  CASE outcome = "font" -> font.objIsType3 \/ font.nameHasType3
    [] outcome \in {"timeout", "nothing"} -> font.nameHasType3
    [] OTHER -> FALSE

\* an error of the lookup leaves analyzePageComplexity as an exception
FontLookupDone_ErrorPropagates(outcome) ==
  /\ analysis.pc = "font"
  /\ outcome \in LookupOutcomes
  /\ LET font == Head(analysis.fontsLeft)
         a == [analysis EXCEPT
                 !.fontsLeft = Tail(analysis.fontsLeft),
                 !.type3FontCount = IF FontIsType3(font, outcome) THEN @ + 1 ELSE @,
                 !.clean = @ /\ outcome # "error"]
     IN analysis' = IF outcome = "error" THEN [a EXCEPT !.pc = "threw"]
                    ELSE IF Len(a.fontsLeft) > 0 THEN a ELSE AnalysisReturns(a)
  /\ AnalyzerFrame

\* the race of commonObjs.get against the timer settled for the next font
FontLookupDone(outcome) ==
  /\ analysis.pc = "font"
  /\ outcome \in LookupOutcomes
  /\ LET font == Head(analysis.fontsLeft)
         a == [analysis EXCEPT
                 !.fontsLeft = Tail(analysis.fontsLeft),
                 !.type3FontCount = IF FontIsType3(font, outcome) THEN @ + 1 ELSE @,
                 !.clean = @ /\ outcome # "error"]
     IN analysis' = IF Len(a.fontsLeft) > 0 THEN a ELSE AnalysisReturns(a)
  /\ AnalyzerFrame

\* the same page is analysed again
AnalyzeAgain ==
  /\ analysis.pc = "done"
  /\ analysis.runNo < MaxAnalyses
  /\ analysis' = NewAnalysis(analysis.page, analysis.runNo + 1, analysis.result,
                             analysis.clean)
  /\ AnalyzerFrame

InitAnalyzer ==
  /\ InitViewer
  /\ analysis \in {NewAnalysis(pg, 1, NoVerdict, TRUE) : pg \in AnalyzerPages}
  /\ pdfium = NoCall
  /\ synth = NoCall
  /\ single = NoCall
  /\ lib = NoCall

AnalyzerStep ==
  \/ \E ok \in BOOLEAN : OperatorListDone(ok)
  \/ \E ok \in BOOLEAN : AnalyzerTextContentDone(ok)
  \/ \E outcome \in LookupOutcomes : FontLookupDone(outcome)
  \/ AnalyzeAgain

\* The analyzer on its own: a page is analysed, then analysed again.
SpecAnalyzer == InitAnalyzer /\ [][AnalyzerStep]_vars

(***************************************************************************)
(* Properties of the analyzer                                              *)
(***************************************************************************)
RuleOrder == << "type3", "text", "font", "ops" >>

\* C11: the verdict is heavy iff (type3FontCount > 0 and textCount > 10) or
\* textCount > 1000 or fontCount > 200 or operationCount > 10000; the
\* reasons are exactly the triggered rules, in that order, and heavyReason
\* is null iff the verdict is not heavy.  textCount 1001 without Type3 fonts
\* is heavy citing the text rule; textCount 1000 does not trigger that rule.
C11_HeavyVerdictFollowsRules ==
  analysis.pc = "done" =>
    LET t3 == analysis.type3FontCount
        text == analysis.page.textCount
        font == analysis.page.fontCount
        ops == analysis.page.operationCount
        Triggered(rule) ==
          CASE rule = "type3" -> t3 > 0 /\ text > 10
            [] rule = "text" -> text > 1000
            [] rule = "font" -> font > 200
            [] OTHER -> ops > 10000
        lines == analysis.result.heavyReason.lines
        cited == [i \in 1..Len(lines) |-> lines[i].rule]
    IN /\ analysis.result.isHeavy <=> \E i \in 1..4 : Triggered(RuleOrder[i])
       /\ cited = SelectSeq(RuleOrder, Triggered)
       /\ analysis.result.heavyReason.isNull <=> ~analysis.result.isHeavy
       /\ (text = 1001 /\ t3 = 0) =>
            (analysis.result.isHeavy /\ \E i \in 1..Len(cited) : cited[i] = "text")
       /\ text = 1000 => \A i \in 1..Len(cited) : cited[i] # "text"

\* a page with 1001 text operations and no Type3 font was judged heavy
C11_Witness ==
  /\ analysis.pc = "done"
  /\ analysis.page.textCount = 1001
  /\ analysis.type3FontCount = 0
  /\ analysis.result.isHeavy
  /\ analysis.result.heavyReason.lines[1].rule = "text"

\* C12: two invocations on the same page, neither of which met an error,
\* return the same verdict and the same reasons, however each font lookup
\* fell relative to its timer.
C12_AnalyzerIsDeterministic ==
  (analysis.pc = "done" /\ analysis.runNo > 1 /\ analysis.clean /\ analysis.previousClean)
    => analysis.result = analysis.previous


(***************************************************************************)
(* Properties of the search results and of the navigation                  *)
(***************************************************************************)
\* the position of the last update of type t in the queue q, 0 if none
LastUpdate(q, t) ==
  LET S == {i \in 1..Len(q) : q[i].t = t}
  IN IF S = {} THEN 0 ELSE CHOOSE i \in S : \A j \in S : j <= i

\* scan k reads the text of its last page: it completes
ScanCompletes(k) ==
  /\ k <= Len(scans)
  /\ scans[k].pageNum = NumPages(scans[k].doc.file)
  /\ ScanTextDone(k, TRUE)

IndexFor(results) == IF Len(results) > 0 THEN 0 ELSE -1

\* C13: a scan that completes sets searchResults to its own match list and
\* currentMatchIndex to 0 if that list is non-empty, else -1; a blank query
\* sets the empty list and -1; when the updates are rendered the list is the
\* one set last, nothing of the list before it is kept.
C13_ScanReplacesResults ==
  [][/\ \A k \in ScanIds :
          ScanCompletes(k) =>
            LET n == Len(pendingUpdates)
            IN /\ Len(pendingUpdates') = n + 3
               /\ pendingUpdates'[n + 1].t = "searchResults"
               /\ \A a \in 1..Len(pendingUpdates'[n + 1].v) :
                    /\ pendingUpdates'[n + 1].v[a].pageNum \in 1..NumPages(scans[k].doc.file)
                    /\ Includes(ToLowerCase(pendingUpdates'[n + 1].v[a].text), scans[k].query)
               /\ pendingUpdates'[n + 2].t = "currentMatchIndex"
               /\ pendingUpdates'[n + 2].v = IndexFor(pendingUpdates'[n + 1].v)
     /\ (TimerFires /\ IsBlank(searchTimer.query)) =>
          LET n == Len(pendingUpdates)
          IN /\ Len(pendingUpdates') = n + 2
             /\ pendingUpdates'[n + 1].t = "searchResults"
             /\ pendingUpdates'[n + 1].v = << >>
             /\ pendingUpdates'[n + 2].t = "currentMatchIndex"
             /\ pendingUpdates'[n + 2].v = -1
     /\ ((Commit \/ \E v \in SearchQueries : HandleSearchChange(v))
           /\ LastUpdate(pendingUpdates, "searchResults") > 0) =>
          /\ searchResults' =
               pendingUpdates[LastUpdate(pendingUpdates, "searchResults")].v
          /\ currentMatchIndex' = IndexFor(searchResults')]_vars

\* the matches of query "b" replaced what was there: three matches, the
\* first one current
C13_Witness ==
  /\ searchQuery = << "b" >>
  /\ Len(searchResults) = 3
  /\ \A a \in 1..3 : Includes(ToLowerCase(searchResults[a].text), << "b" >>)
  /\ currentMatchIndex = 0
  /\ scans = << >>
  /\ pendingUpdates = << >>

LowerOf(c) == IF c = "A" THEN "a" ELSE IF c = "B" THEN "b" ELSE c

\* text contains query when case is ignored
ContainsIgnoringCase(text, query) ==
  \E i \in 1..(Len(text) - Len(query) + 1) :
    \A j \in 1..Len(query) : LowerOf(text[i + j - 1]) = LowerOf(query[j])

\* C14: the match list of a completed scan has exactly one entry for each
\* text item (page p of 1..N, item index i) whose lowercased text contains
\* the lowercased query, no other entry, and is strictly ascending by
\* (pageNum, itemIndex).
C14_MatchListIsExactAndOrdered ==
  [][\A k \in ScanIds :
       ScanCompletes(k) =>
         LET f == scans[k].doc.file
             v == pendingUpdates'[Len(pendingUpdates) + 1].v
             EntriesOf(p, i) == {a \in 1..Len(v) : v[a].pageNum = p /\ v[a].itemIndex = i}
         IN /\ \A p \in 1..NumPages(f) :
                 \A i \in 0..(Len(PageText(f, p)) - 1) :
                   Cardinality(EntriesOf(p, i)) =
                     IF ContainsIgnoringCase(PageText(f, p)[i + 1], scans[k].query)
                     THEN 1 ELSE 0
            /\ \A a \in 1..Len(v) :
                 /\ v[a].pageNum \in 1..NumPages(f)
                 /\ v[a].itemIndex \in 0..(Len(PageText(f, v[a].pageNum)) - 1)
                 /\ v[a].text = PageText(f, v[a].pageNum)[v[a].itemIndex + 1]
            /\ \A a, b \in 1..Len(v) :
                 a < b => \/ v[a].pageNum < v[b].pageNum
                          \/ /\ v[a].pageNum = v[b].pageNum
                             /\ v[a].itemIndex < v[b].itemIndex]_vars

\* a scan of the two-page file found matches on both pages, among them an
\* item that differs from the query in case
C14_Witness ==
  /\ pdfDoc.file = 1
  /\ searchQuery = << "a" >>
  /\ Len(searchResults) = 2
  /\ searchResults[1] = SearchMatch(1, 0, << "A", "b" >>)
  /\ searchResults[2] = SearchMatch(2, 0, << "b", "a" >>)

\* C15: with n > 0 matches and index i, goToNextMatch sets the index to
\* (i+1) mod n and goToPrevMatch to (i-1) mod n; next from n-1 gives 0, prev
\* from 0 gives n-1, next followed by prev restores i; with no match both
\* leave the index as it is.
C15_NavigationWraps ==
  [][LET n == Len(searchResults)
         i == currentMatchIndex
     IN /\ GoToNextMatch =>
             currentMatchIndex' = IF n = 0 THEN i ELSE (i + 1) % n
        /\ GoToPrevMatch =>
             currentMatchIndex' = IF n = 0 THEN i ELSE (i - 1) % n
        /\ (n > 0 /\ i \in 0..(n - 1)) =>
             /\ PrevIndex(NextIndex(i, n), n) = i
             /\ NextIndex(PrevIndex(i, n), n) = i
             /\ NextIndex(n - 1, n) = 0
             /\ PrevIndex(0, n) = n - 1]_vars

\* the last of three matches is current: it was reached by next from the
\* one before it or by prev from the first
C15_Witness ==
  /\ Len(searchResults) = 3
  /\ currentMatchIndex = 2
  /\ pendingUpdates = << >>

\* ---------------------------------------------------------------------------
\* The PDFium adapter: renderPageWithPdfium (part_006).
\*
\* The variable pdfium holds one invocation: its position, the four native
\* pointers (0 while not acquired) and, for each kind of native handle, how
\* often it was released.  The body runs without an await after initPdfium;
\* the positions exist to enumerate the outcome of each native call.
\* ---------------------------------------------------------------------------

MaxPdfiumCalls == 2

Rotations == {0, 90, 180, 270}

\* The native handles of one invocation, each addressed by a non-zero pointer.
Handles == [file |-> 1, doc |-> 2, page |-> 3, bitmap |-> 4]

NewPdfiumCall(pageNum, rot, callNo) ==
  [pc |-> "init", pageNum |-> pageNum, rotation |-> rot, callNo |-> callNo,
   filePtr |-> 0, docPtr |-> 0, pagePtr |-> 0, bitmapPtr |-> 0,
   rotationFlag |-> 0,
   released |-> [h \in DOMAIN Handles |-> 0]]

PdfiumFrame == UNCHANGED << viewerVars, analysis, synth, single, lib >>

\* finally: destroy the bitmap, close the page, close the document, each only
\* when its pointer is non-zero, then free(filePtr) without a test.
Finally(p, exit) ==
  [p EXCEPT !.pc = exit,
            !.released = [h \in DOMAIN Handles |->
                            IF \/ h = "bitmap" /\ p.bitmapPtr # 0
                               \/ h = "page" /\ p.pagePtr # 0
                               \/ h = "doc" /\ p.docPtr # 0
                               \/ h = "file"
                            THEN p.released[h] + 1
                            ELSE p.released[h]]]

\* await initPdfium(); then new Uint8Array(pdfData) and malloc, before the try.
\* A rejected initialisation leaves the function before anything is acquired.
InitPdfiumDone(ok) ==
  /\ pdfium.pc = "init"
  /\ pdfium' = IF ok
               THEN [pdfium EXCEPT !.pc = "copy", !.filePtr = Handles.file]
               ELSE [pdfium EXCEPT !.pc = "threw"]
  /\ PdfiumFrame

\* HEAPU8.set(dataArray, filePtr): the statement before the try.  When it
\* throws, the exception leaves the function and the finally block is not run.
CopyToHeap(ok) ==
  /\ pdfium.pc = "copy"
  /\ pdfium' = [pdfium EXCEPT !.pc = IF ok THEN "loadDocument" ELSE "threw"]
  /\ PdfiumFrame

\* A native call that yields a handle: the pointer, 0 (the code throws), or an
\* exception out of the call itself.
FPDF_LoadMemDocument(outcome) ==
  /\ pdfium.pc = "loadDocument"
  /\ pdfium' = IF outcome = "handle"
               THEN [pdfium EXCEPT !.pc = "loadPage", !.docPtr = Handles.doc]
               ELSE Finally(pdfium, "threw")
  /\ PdfiumFrame

FPDF_LoadPage(outcome) ==
  /\ pdfium.pc = "loadPage"
  /\ pdfium' = IF outcome = "handle"
               THEN [pdfium EXCEPT !.pc = "createBitmap", !.pagePtr = Handles.page]
               ELSE Finally(pdfium, "threw")
  /\ PdfiumFrame

FPDFBitmap_Create(outcome) ==
  /\ pdfium.pc = "createBitmap"
  /\ pdfium' = IF outcome = "handle"
               THEN [pdfium EXCEPT !.pc = "render", !.bitmapPtr = Handles.bitmap]
               ELSE Finally(pdfium, "threw")
  /\ PdfiumFrame

\* FillRect and FPDF_RenderPageBitmap with rotationFlag = floor(rotation/90) % 4.
FPDF_RenderPageBitmap(ok) ==
  /\ pdfium.pc = "render"
  /\ pdfium' = IF ok
               THEN [pdfium EXCEPT !.pc = "readPixels",
                                   !.rotationFlag = (pdfium.rotation \div 90) % 4]
               ELSE Finally(pdfium, "threw")
  /\ PdfiumFrame

\* GetBuffer, GetStride, the BGRA to RGBA copy and new ImageData.
ReadPixels(ok) ==
  /\ pdfium.pc = "readPixels"
  /\ pdfium' = Finally(pdfium, IF ok THEN "returned" ELSE "threw")
  /\ PdfiumFrame

\* The next invocation, for any page and rotation.
RenderPageWithPdfium ==
  /\ pdfium.pc \in {"returned", "threw"}
  /\ pdfium.callNo < MaxPdfiumCalls
  /\ \E pageNum \in 1..MaxPages, rot \in Rotations :
        pdfium' = NewPdfiumCall(pageNum, rot, pdfium.callNo + 1)
  /\ PdfiumFrame

InitPdfiumCalls ==
  /\ InitViewer
  /\ analysis = NoCall
  /\ synth = NoCall
  /\ single = NoCall
  /\ lib = NoCall
  /\ pdfium \in {NewPdfiumCall(pageNum, rot, 1) :
                   pageNum \in 1..MaxPages, rot \in Rotations}

PdfiumOutcomes == {"handle", "null", "throws"}

PdfiumStep ==
  \/ \E ok \in BOOLEAN : InitPdfiumDone(ok)
  \/ \E ok \in BOOLEAN : CopyToHeap(ok)
  \/ \E outcome \in PdfiumOutcomes : FPDF_LoadMemDocument(outcome)
  \/ \E outcome \in PdfiumOutcomes : FPDF_LoadPage(outcome)
  \/ \E outcome \in PdfiumOutcomes : FPDFBitmap_Create(outcome)
  \/ \E ok \in BOOLEAN : FPDF_RenderPageBitmap(ok)
  \/ \E ok \in BOOLEAN : ReadPixels(ok)
  \/ RenderPageWithPdfium

SpecPdfium == InitPdfiumCalls /\ [][PdfiumStep]_vars

\* The handles the invocation holds a pointer to.
Acquired(p) ==
  {h \in DOMAIN Handles :
     \/ h = "file" /\ p.filePtr # 0
     \/ h = "doc" /\ p.docPtr # 0
     \/ h = "page" /\ p.pagePtr # 0
     \/ h = "bitmap" /\ p.bitmapPtr # 0}

\* C16: whenever renderPageWithPdfium has left, by return or by exception,
\* after its input buffer was allocated, every native handle it acquired has
\* been released exactly once and no other handle has been released.
C16_EveryHandleReleasedOnce ==
  (pdfium.pc \in {"returned", "threw"} /\ pdfium.filePtr # 0) =>
     \A h \in DOMAIN Handles :
        pdfium.released[h] = IF h \in Acquired(pdfium) THEN 1 ELSE 0

\* What the code does provide: on the exits that pass through the finally
\* block (from the document load onwards) the handles are released once each.
ReleasedOnceInsideTry ==
  (pdfium.pc \in {"returned", "threw"} /\ pdfium.released.file > 0) =>
     \A h \in DOMAIN Handles :
        pdfium.released[h] = IF h \in Acquired(pdfium) THEN 1 ELSE 0

\* ---------------------------------------------------------------------------
\* The text-layer synthesizer: renderTextLayerToElement (part_004).
\*
\* The variable synth holds one invocation: the items getTextContent yields,
\* the query, and the spans appended to the text layer element.  A string is
\* a sequence of code units.  A span keeps its item, its content, its
\* highlight class and the number of characters its position is advanced by
\* (the factor of charWidth in offsetX and offsetY).
\* ---------------------------------------------------------------------------

MaxItems == 2

\* Text items (with a str, possibly empty) and marked content (without one).
SynthItems ==
  {[hasStr |-> FALSE, str |-> << >>]} \cup
  {[hasStr |-> TRUE, str |-> t] :
     t \in {<< >>, << "a" >>, << "A", "b" >>, << "a", "a", "a" >>,
            << "b", "C", "a", "t" >>, << "I_dot", "a" >>, << "I_dot" >>,
            << "c", "o", "n", "c", "a", "t", "e", "n", "a", "t", "e" >>}}

SynthQueries ==
  {<< >>, << "a" >>, << "A" >>, << "a", "a" >>, << "i" >>, << " " >>,
   << "c", "a", "t" >>, << "I_dot" >>}

\* String.prototype.indexOf(sub, from), 0-based, -1 when absent.
IndexOf(str, sub, from) ==
  LET hits == {i \in from..(Len(str) - Len(sub)) :
                 SubSeq(str, i + 1, i + Len(sub)) = sub}
  IN IF hits = {} THEN -1 ELSE CHOOSE i \in hits : \A j \in hits : i <= j

\* String.prototype.slice(a, b) for 0 <= a: both ends clamped to the length.
Slice(str, a, b) ==
  SubSeq(str, Min(a, Len(str)) + 1, Min(b, Len(str)))

CreateSpan(i, content, offset, highlight) ==
  [item |-> i, content |-> content, offset |-> offset, highlight |-> highlight]

\* faulty variant: only marked content is skipped
SkipsItem_OnlyMarked(item) == ~item.hasStr

\* if (!('str' in item)) continue; if (!textItem.str) continue;
SkipsItem(item) == ~item.hasStr \/ item.str = << >>

\* The while loop and the trailing remainder.  matchIndex is found in the
\* lowercased text with the lowercased query; the slices are taken from the
\* original text and the loop advances by query.length.
RECURSIVE SplitLoop(_, _, _, _, _, _, _)
SplitLoop(i, text, lowerQuery, qlen, lastIndex, offset, spans) ==
  LET matchIndex == IndexOf(ToLowerCase(text), lowerQuery, lastIndex)
  IN IF matchIndex # -1
     THEN LET beforeText == Slice(text, lastIndex, matchIndex)
              withBefore == IF matchIndex > lastIndex
                            THEN Append(spans, CreateSpan(i, beforeText, offset, FALSE))
                            ELSE spans
              offset1 == IF matchIndex > lastIndex
                         THEN offset + Len(beforeText) ELSE offset
              matchText == Slice(text, matchIndex, matchIndex + qlen)
          IN SplitLoop(i, text, lowerQuery, qlen, matchIndex + qlen,
                       offset1 + Len(matchText),
                       Append(withBefore, CreateSpan(i, matchText, offset1, TRUE)))
     ELSE IF lastIndex < Len(text)
          THEN Append(spans, CreateSpan(i, Slice(text, lastIndex, Len(text)),
                                        offset, FALSE))
          ELSE spans

\* The spans of one item that is not skipped.
ItemSpans(i, str, query) ==
  LET lowerQuery == ToLowerCase(query)
  IN IF lowerQuery # << >> /\ Includes(ToLowerCase(str), lowerQuery)
     THEN SplitLoop(i, str, lowerQuery, Len(query), 0, 0, << >>)
     ELSE << CreateSpan(i, str, 0, FALSE) >>

\* for (const item of textContent.items), from item i onwards
RECURSIVE LayerSpans(_, _, _)
LayerSpans(items, query, i) ==
  IF i > Len(items) THEN << >>
  ELSE (IF SkipsItem(items[i]) THEN << >> ELSE ItemSpans(i, items[i].str, query))
       \o LayerSpans(items, query, i + 1)

SynthFrame == UNCHANGED << viewerVars, analysis, pdfium, single, lib >>

\* await page.getTextContent() settles: the loop fills the emptied element,
\* or the rejection leaves it empty.
SynthTextContentDone(ok) ==
  /\ synth.pc = "getTextContent"
  /\ synth' = IF ok
              THEN [synth EXCEPT !.pc = "done",
                                 !.spans = LayerSpans(synth.items, synth.query, 1)]
              ELSE [synth EXCEPT !.pc = "threw"]
  /\ SynthFrame

InitSynth ==
  /\ InitViewer
  /\ analysis = NoCall
  /\ pdfium = NoCall
  /\ single = NoCall
  /\ lib = NoCall
  /\ \E n \in 1..MaxItems, query \in SynthQueries :
       \E items \in [1..n -> SynthItems] :
          synth = [pc |-> "getTextContent", items |-> items, query |-> query,
                   spans |-> << >>]

SynthStep == \E ok \in BOOLEAN : SynthTextContentDone(ok)

SpecSynth == InitSynth /\ [][SynthStep]_vars

\* --- what the claims speak of ---

\* The spans of item i, in the order they were appended.
RunsOf(i) == SelectSeq(synth.spans, LAMBDA sp : sp.item = i)

RECURSIVE Concat(_)
Concat(runs) ==
  IF runs = << >> THEN << >> ELSE Head(runs).content \o Concat(Tail(runs))

\* text has an occurrence of query at the 0-based position p, ignoring case
OccursAt(text, query, p) ==
  /\ p + Len(query) <= Len(text)
  /\ \A j \in 1..Len(query) : LowerOf(text[p + j]) = LowerOf(query[j])

\* The leftmost non-overlapping occurrences from position from onwards.
RECURSIVE LeftmostOccurrences(_, _, _)
LeftmostOccurrences(text, query, from) ==
  LET ps == {p \in from..Len(text) : OccursAt(text, query, p)}
  IN IF ps = {} THEN {}
     ELSE LET p == CHOOSE x \in ps : \A y \in ps : x <= y
          IN {p} \cup LeftmostOccurrences(text, query, p + Len(query))

\* The claim of C17 for item i of the finished invocation.
SplitsAtOccurrences(i) ==
  LET text == synth.items[i].str
      query == synth.query
      runs == RunsOf(i)
      hl == {k \in 1..Len(runs) : runs[k].highlight}
  IN /\ Concat(runs) = text
     /\ \A k \in 1..Len(runs) : runs[k].offset = Len(Concat(SubSeq(runs, 1, k - 1)))
     /\ {runs[k].offset : k \in hl} = LeftmostOccurrences(text, query, 0)
     /\ Cardinality(hl) = Cardinality(LeftmostOccurrences(text, query, 0))
     /\ \A k \in hl : Len(runs[k].content) = Len(query)

\* C17: for every text item and every non-empty query the item contains when
\* case is ignored, the runs emitted for the item concatenate to the item's
\* text, the highlighted runs are exactly the leftmost non-overlapping
\* occurrences of the query, and each run is advanced by the number of
\* characters of the runs before it.
C17_RunsSplitAtOccurrences ==
  synth.pc = "done" =>
    \A i \in 1..Len(synth.items) :
       (/\ synth.items[i].hasStr
        /\ synth.query # << >>
        /\ LeftmostOccurrences(synth.items[i].str, synth.query, 0) # {})
       => SplitsAtOccurrences(i)

\* What the code does provide: the same for items whose lower case has the
\* length of the item, with a query whose lower case has the query's length.
SplitsWhenLowerCaseKeepsLength ==
  synth.pc = "done" =>
    \A i \in 1..Len(synth.items) :
       (/\ synth.items[i].hasStr
        /\ synth.query # << >>
        /\ LeftmostOccurrences(synth.items[i].str, synth.query, 0) # {}
        /\ \A j \in 1..Len(synth.items[i].str) : synth.items[i].str[j] # "I_dot"
        /\ \A j \in 1..Len(synth.query) : synth.query[j] # "I_dot")
       => SplitsAtOccurrences(i)

\* "cat" on "concatenate": "con", "cat" (highlighted), "enate" at 0, 3, 6.
ConcatenateExample ==
  (/\ synth.pc = "done"
   /\ Len(synth.items) = 1
   /\ synth.items[1].str = << "c", "o", "n", "c", "a", "t", "e", "n", "a", "t", "e" >>
   /\ synth.query = << "c", "a", "t" >>)
  => synth.spans =
       << CreateSpan(1, << "c", "o", "n" >>, 0, FALSE),
          CreateSpan(1, << "c", "a", "t" >>, 3, TRUE),
          CreateSpan(1, << "e", "n", "a", "t", "e" >>, 6, FALSE) >>

\* C18: with an empty query the finished text layer holds exactly one span for
\* each non-empty text item, in item order, none highlighted; and whatever the
\* query, an item whose lowercased text does not contain the lowercased query
\* yields one span with the whole text, not advanced and not highlighted.
C18_UnmatchedItemsYieldOneSpan ==
  synth.pc = "done" =>
    /\ synth.query = << >> =>
         LET kept == {i \in 1..Len(synth.items) :
                        synth.items[i].hasStr /\ synth.items[i].str # << >>}
         IN /\ Len(synth.spans) = Cardinality(kept)
            /\ \A i \in kept : Len(RunsOf(i)) = 1
            /\ \A k \in 1..Len(synth.spans) :
                  /\ synth.spans[k].item \in kept
                  /\ ~synth.spans[k].highlight
                  /\ k > 1 => synth.spans[k - 1].item < synth.spans[k].item
    /\ \A i \in 1..Len(synth.items) :
          (/\ synth.items[i].hasStr
           /\ synth.items[i].str # << >>
           /\ synth.query # << >>
           /\ ~Includes(ToLowerCase(synth.items[i].str), ToLowerCase(synth.query)))
          => RunsOf(i) = << CreateSpan(i, synth.items[i].str, 0, FALSE) >>

\* An empty query on marked content followed by the item "Ab": one span.
C18_Witness ==
  /\ synth.pc = "done"
  /\ synth.query = << >>
  /\ Len(synth.items) = 2
  /\ ~synth.items[1].hasStr
  /\ synth.items[2].str = << "A", "b" >>
  /\ Len(synth.spans) = 1

\* ---------------------------------------------------------------------------
\* Zoom and rotation on their own: one file is opened and the toolbar
\* handlers zoomIn, zoomOut, handleZoomChange, rotateClockwise and
\* rotateCounterClockwise are called any number of times.  The handlers are
\* the functions themselves, without the disabled attribute of the zoom
\* buttons: at a limit the call commits the clamped, unchanged scale.
\* ---------------------------------------------------------------------------

ToolbarUpdates ==
  {U("zoomIn", 0, 0), U("zoomOut", 0, 0), U("rotateClockwise", 0, 0),
   U("rotateCounterClockwise", 0, 0)} \cup {U("scale", 0, v) : v \in ZOOM_PRESETS}

\* A click or a selection: a discrete event, committed at once.
HandlerCall(u) ==
  /\ pdfDoc # NoDoc
  /\ u \in ToolbarUpdates
  /\ CommitWith(Append(pendingUpdates, u))
  /\ UNCHANGED << renderRuns, scans, loads, nLoads, nRuns, nChanges, helperVars >>

NextZoom == FirstLoadStep \/ Commit \/ \E u \in ToolbarUpdates : HandlerCall(u)

SpecZoom == Init /\ [][NextZoom]_vars

\* C19: the scale stays within [MIN_ZOOM, MAX_ZOOM] (0.25 to 4, in quarters
\* 1 to 16); zoomIn at MAX_ZOOM and zoomOut at MIN_ZOOM leave it unchanged and
\* every other zoomIn or zoomOut changes it by exactly ZOOM_STEP (0.25); a
\* preset selection sets the preset; four zoomIn from 1.0 give 2.0.
C19_ZoomStaysClamped ==
  [][/\ scale \in MIN_ZOOM..MAX_ZOOM
     /\ scale' \in MIN_ZOOM..MAX_ZOOM
     /\ HandlerCall(U("zoomIn", 0, 0)) =>
          scale' = IF scale = MAX_ZOOM THEN scale ELSE scale + ZOOM_STEP
     /\ HandlerCall(U("zoomOut", 0, 0)) =>
          scale' = IF scale = MIN_ZOOM THEN scale ELSE scale - ZOOM_STEP
     /\ \A v \in ZOOM_PRESETS : HandlerCall(U("scale", 0, v)) => scale' = v
     /\ ApplyScale(ApplyScale(ApplyScale(ApplyScale(InitialScale,
            U("zoomIn", 0, 0)), U("zoomIn", 0, 0)), U("zoomIn", 0, 0)),
            U("zoomIn", 0, 0)) = 2 * InitialScale]_vars

\* A document is open and the scale has reached MAX_ZOOM, where zoomIn clamps.
C19_Witness == pdfDoc # NoDoc /\ scale = MAX_ZOOM

\* C20: the rotation is always one of 0, 90, 180, 270; rotateClockwise adds a
\* quarter turn and rotateCounterClockwise takes one away, modulo 360; from
\* every rotation four calls of either return to it, and rotateClockwise
\* followed by rotateCounterClockwise is the identity.
C20_RotationCycles ==
  [][LET cw == U("rotateClockwise", 0, 0)
         ccw == U("rotateCounterClockwise", 0, 0)
         Four(r, u) ==
           ApplyRotation(ApplyRotation(ApplyRotation(ApplyRotation(r, u), u), u), u)
     IN /\ rotation \in Rotations
        /\ rotation' \in Rotations
        /\ HandlerCall(cw) => rotation' = (rotation + 90) % 360
        /\ HandlerCall(ccw) => (rotation' + 90) % 360 = rotation
        /\ Four(rotation, cw) = rotation
        /\ Four(rotation, ccw) = rotation
        /\ ApplyRotation(ApplyRotation(rotation, cw), ccw) = rotation
        /\ ApplyRotation(ApplyRotation(rotation, ccw), cw) = rotation]_vars

\* A document is open and turned by three quarter turns.
C20_Witness == pdfDoc # NoDoc /\ rotation = 270

\* ---------------------------------------------------------------------------
\* The password flow: the catch block of loadPdfWithPassword and the handlers
\* of the password prompt.  One file is opened; getDocument may ask for a
\* password or refuse the one it was given; the prompt's form submits, its
\* field changes and its cancel button closes it, also while a load is in
\* flight.
\* ---------------------------------------------------------------------------

Passwords == {"p", "q"}

\* faulty variant: every rejection is handled as a load failure
RejectionUpdates_NoPasswordBranch(load, signal) ==
  << U("error", 0, "load"),
     U("showPasswordDialog", 0, FALSE),
     U("pendingPdfData", 0, NoPending),
     U("loading", 0, FALSE) >>

\* catch (err) of loadPdfWithPassword, then finally setLoading(false)
RejectionUpdates(load, signal) ==
  CASE signal = "needPassword" ->
         << U("pendingPdfData", 0, [buf |-> load.buf, file |-> load.file]),
            U("showPasswordDialog", 0, TRUE),
            U("passwordError", 0, ""),
            U("loading", 0, FALSE) >>
    [] signal = "incorrectPassword" ->
         << U("passwordError", 0, "incorrect"), U("loading", 0, FALSE) >>
    [] OTHER ->
         << U("error", 0, "load"),
            U("showPasswordDialog", 0, FALSE),
            U("pendingPdfData", 0, NoPending),
            U("loading", 0, FALSE) >>

\* getDocument rejected with PasswordResponses.NEED_PASSWORD (no password was
\* given) or PasswordResponses.INCORRECT_PASSWORD (one was given).
LoadRejected(i, signal) ==
  /\ i \in 1..Len(loads)
  /\ loads[i].pc = "getDocument"
  /\ signal = IF loads[i].password = NoPassword
              THEN "needPassword" ELSE "incorrectPassword"
  /\ loads' = RemoveAt(loads, i)
  /\ pendingUpdates' = pendingUpdates \o RejectionUpdates(loads[i], signal)
  /\ UNCHANGED << prompt, pdfDoc, totalPages, pdfArrayBuffer, scale, rotation,
                  searchQuery, pageRenderStates, error, loading, pageRefsMap, canvas,
                  textLayer, renderRuns, textPasses, showThumbnails, thumbnails,
                  isGeneratingThumbnails, thumbRuns, searchResults, currentMatchIndex,
                  isSearching, searchTimer, scans, nLoads, nRuns, nChanges, helperVars >>

\* onChange of the password field
HandlePasswordChange(v) ==
  /\ prompt.show
  /\ v # prompt.password
  /\ CommitWith(Append(pendingUpdates, U("password", 0, v)))
  /\ UNCHANGED << renderRuns, scans, loads, nLoads, nRuns, nChanges, helperVars >>

\* onSubmit of the prompt's form: loadPdfWithPassword(pendingPdfData, password)
\* runs up to getDocument inside the event handler.
HandlePasswordSubmit ==
  /\ prompt.show
  /\ prompt.pending # NoPending
  /\ prompt.password # NoPassword
  /\ Len(loads) < MaxLoads
  /\ CommitWith(pendingUpdates \o << U("loading", 0, TRUE), U("error", 0, "") >>)
  /\ loads' = Append(loads, [id |-> prompt.pending.buf, file |-> prompt.pending.file,
                             pc |-> "getDocument", buf |-> prompt.pending.buf,
                             password |-> prompt.password])
  /\ UNCHANGED << renderRuns, scans, nLoads, nRuns, nChanges, helperVars >>

HandlePasswordCancel ==
  /\ prompt.show
  /\ CommitWith(pendingUpdates \o
       << U("showPasswordDialog", 0, FALSE), U("password", 0, NoPassword),
          U("passwordError", 0, ""), U("pendingPdfData", 0, NoPending) >>)
  /\ UNCHANGED << renderRuns, scans, loads, nLoads, nRuns, nChanges, helperVars >>

PasswordStep ==
  \/ \E i \in LoadIds, signal \in {"needPassword", "incorrectPassword"} :
        LoadRejected(i, signal)
  \/ \E v \in Passwords \cup {NoPassword} : HandlePasswordChange(v)
  \/ HandlePasswordSubmit
  \/ HandlePasswordCancel

NextPassword == FirstLoadStep \/ Commit \/ PasswordStep

SpecPassword == Init /\ [][NextPassword]_vars

\* The step in which the getDocument of load i is rejected with the signal.
RejectionStep(i, signal) ==
  /\ i \in 1..Len(loads)
  /\ loads[i].pc = "getDocument"
  /\ signal = IF loads[i].password = NoPassword
              THEN "needPassword" ELSE "incorrectPassword"
  /\ loads' = RemoveAt(loads, i)
  /\ LET queued == RejectionUpdates(loads[i], signal)
         n == Len(pendingUpdates)
     IN /\ Len(pendingUpdates') = n + Len(queued)
        /\ \A k \in 1..Len(queued) : pendingUpdates'[n + k].t = queued[k].t
        /\ \A k \in 1..Len(queued) : pendingUpdates'[n + k].v = queued[k].v

\* C21: when a load is rejected with the needs-password signal, the updates
\* it queues open the prompt and make its bytes the pending bytes; when a
\* retry is rejected with the wrong-password signal, they set the
\* wrong-password message and leave the prompt and the pending bytes as they
\* are; neither sets the load error or a document.
C21_PasswordRejectionsAreRecoverable ==
  [][\A i \in LoadIds, signal \in {"needPassword", "incorrectPassword"} :
       RejectionStep(i, signal) =>
         LET n == Len(pendingUpdates)
             queued == SubSeq(pendingUpdates', n + 1, Len(pendingUpdates'))
             before == Fold(ApplyPrompt, prompt, pendingUpdates)
             after == Fold(ApplyPrompt, before, queued)
         IN /\ \A k \in 1..Len(queued) : queued[k].t \notin {"error", "pdfDoc"}
            /\ signal = "needPassword" =>
                 /\ after.show
                 /\ after.pending = [buf |-> loads[i].buf, file |-> loads[i].file]
                 /\ after.error = ""
            /\ signal = "incorrectPassword" =>
                 /\ after.error = "incorrect"
                 /\ after.show = before.show
                 /\ after.pending = before.pending]_vars

\* A retry was refused and nothing else is going on: the prompt is open with
\* the wrong-password message, the bytes are pending and a password is typed,
\* so the form can be submitted again; no load error, no document.
C21_Witness ==
  /\ prompt.show
  /\ prompt.error = "incorrect"
  /\ prompt.pending # NoPending
  /\ prompt.password = "q"
  /\ error = ""
  /\ pdfDoc = NoDoc
  /\ ~loading
  /\ loads = << >>
  /\ pendingUpdates = << >>

\* ---------------------------------------------------------------------------
\* The single-canvas viewer: executeRender and renderWithPdfiumInternal
\* (part_005).  The variable single holds the executeRender calls in start
\* order and what they write: the error message, the isAnalyzing and
\* isRendering indicators, currentRenderTaskRef (0 or the call whose render
\* task it holds), the canvas (0 or the call that drew it last) and the text
\* layer (the calls whose spans it holds).  The updates of a continuation are
\* rendered before the next continuation runs.
\* ---------------------------------------------------------------------------

MaxSingleCalls == 2

SingleFrame == UNCHANGED << viewerVars, analysis, pdfium, synth, lib >>

\* finally of executeRender: both indicators are cleared
SingleReturns(v, i) ==
  [v EXCEPT !.calls[i].pc = "done", !.isAnalyzing = FALSE, !.isRendering = FALSE]

\* the outer catch for an exception that is not a cancellation, then finally
SingleFails(v, i) == SingleReturns([v EXCEPT !.error = "render"], i)

\* From getViewport to page.render: the canvas is resized, then the render
\* task is stored in currentRenderTaskRef; without a 2d context the call
\* returns after resizing.
PrimaryStart(v, i, ctx) ==
  IF ctx
  THEN [v EXCEPT !.calls[i].pc = "render", !.canvas = i, !.task = i]
  ELSE SingleReturns([v EXCEPT !.canvas = i], i)

\* executeRender up to its first await: the stored render task is cancelled
\* and forgotten, isAnalyzing is set.
ExecuteRender ==
  /\ single.nCalls < MaxSingleCalls
  /\ single' =
       [single EXCEPT
          !.nCalls = single.nCalls + 1,
          !.cancelled = IF single.task # 0 THEN single.cancelled \cup {single.task}
                        ELSE single.cancelled,
          !.task = 0,
          !.isAnalyzing = TRUE,
          !.calls = Append(single.calls, [pc |-> "getPage", heavy |-> FALSE])]
  /\ SingleFrame

SingleGetPageDone(i, ok) ==
  /\ i \in 1..Len(single.calls)
  /\ single.calls[i].pc = "getPage"
  /\ single' = IF ok THEN [single EXCEPT !.calls[i].pc = "analyze"]
               ELSE SingleFails(single, i)
  /\ SingleFrame

\* analyzePageComplexity settled; heavy stands for
\* complexity.isHeavy && pdfArrayBuffer
SingleAnalyzeDone(i, ok, heavy) ==
  /\ i \in 1..Len(single.calls)
  /\ single.calls[i].pc = "analyze"
  /\ single' = IF ok
               THEN [single EXCEPT !.calls[i].pc = "yield", !.calls[i].heavy = heavy,
                                   !.isAnalyzing = FALSE, !.isRendering = TRUE]
               ELSE SingleFails(single, i)
  /\ SingleFrame

SingleYieldDone(i, ctx) ==
  /\ i \in 1..Len(single.calls)
  /\ single.calls[i].pc = "yield"
  /\ single' = IF single.calls[i].heavy
               THEN [single EXCEPT !.calls[i].pc = "pdfium"]
               ELSE PrimaryStart(single, i, ctx)
  /\ SingleFrame

\* renderWithPdfiumInternal settled: the image is put on the canvas and the
\* text layer is cleared, or the failure falls through to the primary render
RenderWithPdfiumInternalDone(i, ok, ctx) ==
  /\ i \in 1..Len(single.calls)
  /\ single.calls[i].pc = "pdfium"
  /\ single' = IF ok
               THEN SingleReturns([single EXCEPT !.canvas = i, !.textLayer = << >>], i)
               ELSE PrimaryStart(single, i, ctx)
  /\ SingleFrame

\* renderTask.promise settled.  A cancelled task rejects with
\* RenderingCancelledException.  The inner finally clears currentRenderTaskRef
\* whichever task it holds; then renderTextLayer clears the text layer.
RenderTaskSettled(i, outcome) ==
  /\ i \in 1..Len(single.calls)
  /\ single.calls[i].pc = "render"
  /\ (i \in single.cancelled) => outcome = "cancelled"
  /\ (outcome = "cancelled") => i \in single.cancelled
  /\ LET v == [single EXCEPT !.task = 0]
     IN single' = CASE outcome = "ok" ->
                         [v EXCEPT !.calls[i].pc = "text", !.textLayer = << >>]
                    [] outcome = "cancelled" -> SingleReturns(v, i)
                    [] OTHER -> SingleFails(v, i)
  /\ SingleFrame

\* getTextContent of renderTextLayer settled: the spans are appended
SingleTextDone(i, ok) ==
  /\ i \in 1..Len(single.calls)
  /\ single.calls[i].pc = "text"
  /\ single' = IF ok
               THEN SingleReturns([single EXCEPT !.textLayer = Append(single.textLayer, i)], i)
               ELSE SingleFails(single, i)
  /\ SingleFrame

InitSingle ==
  /\ InitViewer
  /\ analysis = NoCall
  /\ pdfium = NoCall
  /\ synth = NoCall
  /\ lib = NoCall
  /\ single = [calls |-> << >>, nCalls |-> 0, cancelled |-> {}, task |-> 0,
               isAnalyzing |-> FALSE, isRendering |-> FALSE, error |-> "",
               canvas |-> 0, textLayer |-> << >>]

SingleStep ==
  \/ ExecuteRender
  \/ \E i \in 1..MaxSingleCalls, ok \in BOOLEAN : SingleGetPageDone(i, ok)
  \/ \E i \in 1..MaxSingleCalls, ok \in BOOLEAN, heavy \in BOOLEAN :
        SingleAnalyzeDone(i, ok, heavy)
  \/ \E i \in 1..MaxSingleCalls, ctx \in BOOLEAN : SingleYieldDone(i, ctx)
  \/ \E i \in 1..MaxSingleCalls, ok \in BOOLEAN, ctx \in BOOLEAN :
        RenderWithPdfiumInternalDone(i, ok, ctx)
  \/ \E i \in 1..MaxSingleCalls, outcome \in {"ok", "cancelled", "error"} :
        RenderTaskSettled(i, outcome)
  \/ \E i \in 1..MaxSingleCalls, ok \in BOOLEAN : SingleTextDone(i, ok)

SpecSingle == InitSingle /\ [][SingleStep]_vars

\* C22: a step of an executeRender call that is no longer the newest one
\* changes none of the error message, the indicators, currentRenderTaskRef,
\* the canvas and the text layer.
C22_SupersededCallWritesNothing ==
  [][\A i \in 1..Len(single.calls) :
       (/\ i < Len(single.calls)
        /\ Len(single'.calls) = Len(single.calls)
        /\ single'.calls[i].pc # single.calls[i].pc)
       => /\ single'.error = single.error
          /\ single'.isAnalyzing = single.isAnalyzing
          /\ single'.isRendering = single.isRendering
          /\ single'.task = single.task
          /\ single'.canvas = single.canvas
          /\ single'.textLayer = single.textLayer]_vars

\* ---------------------------------------------------------------------------
\* The per-page render state after a failure.
\* ---------------------------------------------------------------------------

\* What the viewer reads of the state of page p: currentState?.rendered and
\* currentState?.rendering in renderSinglePage, state.rendered in
\* updateTextLayers, renderState?.rendering in the page list.
ObservedState(m, p) ==
  [rendered |-> IsRendered(m, p), rendering |-> IsRendering(m, p)]

\* The step in which run i leaves through the catch block of renderSinglePage
\* after its page fetch, its analysis or its pdf.js render threw.
RunFailureStep(i) ==
  /\ i \in 1..Len(renderRuns)
  /\ renderRuns[i].pc \in {"getPage", "analyze", "render"}
  /\ renderRuns' = RemoveAt(renderRuns, i)
  /\ Len(pendingUpdates') = Len(pendingUpdates) + 1

\* C23: when the page fetch, the analysis or the pdf.js render of a run
\* throws, the state the run writes for its page is one the viewer can tell
\* from the state of a page that was never requested (a page without entry).
C23_FailedIsDistinctFromIdle ==
  [][\A i \in RunIds :
       RunFailureStep(i) =>
         LET u == pendingUpdates'[Len(pendingUpdates')]
         IN /\ u.t = "prs_set"
            /\ u.p = renderRuns[i].page
            /\ ObservedState(MapSet(EmptyMap, u.p, u.v), u.p)
                 # ObservedState(EmptyMap, u.p)]_vars

\* ---------------------------------------------------------------------------
\* The PDFium branch of renderSinglePage when it succeeds.
\* ---------------------------------------------------------------------------

\* The step in which run i ends after its PDFium branch: the image was put
\* on the canvas and the text layer pass of that branch now settles well.
FallbackSuccessStep(i) ==
  /\ i \in 1..Len(renderRuns)
  /\ renderRuns[i].pc = "textFallback"
  /\ renderRuns' = RemoveAt(renderRuns, i)

\* C24: when the PDFium branch of a run succeeds, the run was for a heavy
\* page, it marks the page rendered with usedPdfium = true, page.render was
\* not started for it, and the spans computed from the page's text content for
\* the request's query, scale and rotation are appended to the page's text
\* layer (emptied before) unless the page was unmounted.
C24_FallbackSuccessFillsTextLayer ==
  [][\A i \in RunIds :
       FallbackSuccessStep(i) =>
         LET run == renderRuns[i]
             u == pendingUpdates'[Len(pendingUpdates')]
         IN /\ run.heavy
            /\ ~run.pdfiumFailed
            /\ Len(pendingUpdates') = Len(pendingUpdates) + 1
            /\ u.t = "prs_set"
            /\ u.p = run.page
            /\ u.v = PRS(TRUE, FALSE, TRUE)
            /\ canvas' = canvas
            /\ Attached(pageRefsMap, run.page, run.elem) =>
                 textLayer'[run.page] = Append(textLayer[run.page], SpanGroup(run))]_vars

\* A page rendered by PDFium: marked usedPdfium, its canvas holds the PDFium
\* image and its text layer holds spans.
C24_Witness ==
  \E p \in Pages :
    /\ MapHas(pageRenderStates, p)
    /\ pageRenderStates[p].rendered
    /\ pageRenderStates[p].usedPdfium
    /\ MapHas(canvas, p)
    /\ canvas[p].kind = "fallback"
    /\ MapHas(textLayer, p)
    /\ textLayer[p] # << >>

\* ---------------------------------------------------------------------
\* Heavy pages in the thumbnail pipeline
\* ---------------------------------------------------------------------

\* complexity.heavyReason || '重いページ': the reason of a skipped marker
DefaultSkipReason == << "heavy page" >>
SkipReason(complexity) ==
  IF complexity.heavyReason.isNull \/ complexity.heavyReason.lines = << >>
  THEN DefaultSkipReason
  ELSE complexity.heavyReason.lines

\* counts around the thresholds of the verdict
VerdictInputs ==
  { HeavyVerdict(t3, tx, f, o) :
      t3 \in {0, 1}, tx \in {0, 11, HEAVY_TEXT_THRESHOLD + 1},
      f \in {0, HEAVY_FONT_SWITCH_THRESHOLD + 1}, o \in {0, HEAVY_PAGE_THRESHOLD + 1} }

\* the thumb_append updates queued by a step
ThumbAppendsOfStep ==
  LET n == Len(pendingUpdates)
  IN { k \in (n + 1)..Len(pendingUpdates') : pendingUpdates'[k].t = "thumb_append" }

\* the loop body of run j ends on a heavy page whose bytes were handed
\* to renderThumbnailWithPdfium
HeavyWithBytesStep(j) ==
  /\ j \in 1..Len(thumbRuns)
  /\ thumbRuns[j].pc = "pdfium"
  /\ Len(pendingUpdates') >= Len(pendingUpdates)
  /\ \/ thumbRuns' = RemoveAt(thumbRuns, j)
     \/ /\ Len(thumbRuns') = Len(thumbRuns)
        /\ thumbRuns'[j].pc # "pdfium"

AnalysedBefore(i) ==
  /\ MapHas(canvas, renderRuns[i].page)
  /\ canvas[renderRuns[i].page].doc = renderRuns[i].doc.id

\* C26: the complexity profile of a page is computed at most once per
\* document: no run awaits analyzePageComplexity for a page that was
\* analysed for the same document before
C26_ProfileComputedAtMostOnce ==
  \A i \in 1..Len(renderRuns) :
    renderRuns[i].pc = "analyze" => ~AnalysedBefore(i)

\* ---------------------------------------------------------------------
\* The text layer once every pass has settled
\* ---------------------------------------------------------------------

\* nothing is in flight: no render run, no updateTextLayers pass, no
\* setState call waiting for its render
TextLayersSettled ==
  /\ renderRuns = << >>
  /\ textPasses = << >>
  /\ pendingUpdates = << >>

\* the spans a pass over the current document computes for the current
\* scale, rotation and query
CurrentSpanGroup ==
  [doc |-> pdfDoc.id, scale |-> scale, rotation |-> rotation, query |-> searchQuery]

\* C27: once all text-layer passes have settled, the text layer of a page
\* holds the spans of one pass only, computed for the current scale,
\* rotation and query: no spans of an earlier or overlapping pass are
\* left next to them
C27_SettledLayerHoldsOnePass ==
  TextLayersSettled =>
    \A p \in DOMAIN textLayer :
      /\ Len(textLayer[p]) <= 1
      /\ Len(textLayer[p]) = 1 => textLayer[p][1] = CurrentSpanGroup

\* ---------------------------------------------------------------------
\* The bytes of the document and the buffers handed to the libraries
\* ---------------------------------------------------------------------

\* the ArrayBuffer that file.arrayBuffer() produced for load id: the one
\* kept in pdfArrayBuffer and pendingPdfData
BufferOf(id) == [origin |-> id, copy |-> FALSE]

\* buffer.slice(0) with every call site handing over the buffer itself
Slice0_SameBuffer(buffer) == buffer

\* buffer.slice(0): a new ArrayBuffer with the same bytes
Slice0(buffer) == [buffer EXCEPT !.copy = TRUE]

\* const dataCopy = data.slice(0); getDocument({data: dataCopy, ...})
GetDocumentData(load) == Slice0(BufferOf(load.buf))

\* renderPageWithPdfium(pdfArrayBuffer.slice(0), ...)
RenderPageWithPdfiumData(run) == Slice0(BufferOf(run.buf))

\* renderThumbnailWithPdfium(pdfDataForPdfium.slice(0), ...)
RenderThumbnailWithPdfiumData(run) == Slice0(BufferOf(run.buf))

\* the buffers held in state, in setState calls not yet rendered, and as
\* the data argument of a loadPdfWithPassword call in flight
CanonicalBuffers ==
  { BufferOf(b) : b \in {pdfArrayBuffer} \ {NoBuf} }
    \cup { BufferOf(prompt.pending.buf) : x \in {prompt.pending} \ {NoPending} }
    \cup { BufferOf(pendingUpdates[k].v) :
             k \in { n \in 1..Len(pendingUpdates) :
                       /\ pendingUpdates[n].t = "pdfArrayBuffer"
                       /\ pendingUpdates[n].v # NoBuf } }
    \cup { BufferOf(pendingUpdates[k].v.buf) :
             k \in { n \in 1..Len(pendingUpdates) :
                       /\ pendingUpdates[n].t = "pendingPdfData"
                       /\ pendingUpdates[n].v # NoPending } }
    \cup { BufferOf(loads[i].buf) : i \in 1..Len(loads) }

\* the loads that call getDocument in this step
GetDocumentCalls ==
  { i \in 1..Len(loads') :
      /\ loads'[i].pc = "getDocument"
      /\ \/ Len(loads') > Len(loads) /\ i = Len(loads')
         \/ Len(loads') = Len(loads) /\ loads[i].pc = "arrayBuffer" }

\* the render runs that call renderPageWithPdfium in this step
RenderPageWithPdfiumCalls ==
  { i \in 1..Len(renderRuns) :
      /\ Len(renderRuns') = Len(renderRuns)
      /\ renderRuns[i].pc = "yield"
      /\ renderRuns'[i].pc = "pdfium" }

\* the thumbnail runs that call renderThumbnailWithPdfium in this step
RenderThumbnailWithPdfiumCalls ==
  { j \in 1..Len(thumbRuns) :
      /\ Len(thumbRuns') = Len(thumbRuns)
      /\ thumbRuns[j].pc = "analyze"
      /\ thumbRuns'[j].pc = "pdfium" }

\* the buffers handed to pdf.js or PDFium in this step
HandedToLibrary ==
  { GetDocumentData(loads'[i]) : i \in GetDocumentCalls }
    \cup { RenderPageWithPdfiumData(renderRuns[i]) : i \in RenderPageWithPdfiumCalls }
    \cup { RenderThumbnailWithPdfiumData(thumbRuns[j]) :
             j \in RenderThumbnailWithPdfiumCalls }

\* renderSinglePage on documents whose pages are all heavy and which
\* PDFium renders: every run takes the PDFium branch
HeavyRenderStep ==
  \/ ObserverCallback(1)
  \/ \E i \in RunIds : GetPageDone(i, TRUE)
  \/ \E i \in RunIds : AnalyzeDone(i, TRUE, TRUE)
  \/ \E i \in RunIds : YieldDone(i, TRUE)
  \/ \E i \in RunIds : PdfiumDone(i, TRUE, TRUE)
  \/ \E i \in RunIds : TextFallbackDone(i, TRUE, TRUE)

\* generateThumbnails on the same documents
HeavyThumbStep ==
  \/ \E j \in ThumbIds : ThumbYieldDone(j)
  \/ \E j \in ThumbIds : ThumbGetPageDone(j, TRUE)
  \/ \E j \in ThumbIds : ThumbAnalyzeDone(j, TRUE, TRUE, FALSE)
  \/ \E j \in ThumbIds : ThumbPdfiumDone(j, TRUE)

\* a one-page document is loaded, with password retries, then rendered
\* and given its thumbnail
NextBuffers ==
  \/ \E f \in {f \in Files : NumPages(f) = 1} : nLoads < MaxSessionLoads /\ LoadPdf(f)
  \/ LoadSettles
  \/ \E i \in LoadIds, signal \in {"needPassword", "incorrectPassword"} :
        LoadRejected(i, signal)
  \/ HandlePasswordChange("p")
  \/ HandlePasswordSubmit
  \/ Commit
  \/ HeavyRenderStep
  \/ HeavyThumbStep

SpecBuffers == Init /\ [][NextBuffers]_vars

MaxInitCalls == 4

NewLib ==
  [pdfiumInstance |-> 0, initPromise |-> 0, pc |-> "idle", error |-> "",
   fetches |-> 0, inits |-> 0, callers |-> << >>]

LibFrame == UNCHANGED << viewerVars, analysis, pdfium, synth, single >>

\* what the caller holds: the instance at once, or a promise to await and
\* then the instance or the error the promise settled with
Caller(via, promise, result) ==
  [via |-> via, promise |-> promise, result |-> result, error |-> ""]

\* initPdfium forgetting a promise that was rejected
InitPdfium_RetriesAfterFailure ==
  /\ Len(lib.callers) < MaxInitCalls
  /\ IF lib.pdfiumInstance # 0
     THEN lib' = [lib EXCEPT !.callers =
                    Append(@, Caller("instance", 0, lib.pdfiumInstance))]
     ELSE IF lib.initPromise # 0 /\ lib.pc # "rejected"
     THEN lib' = [lib EXCEPT !.callers =
                    Append(@, Caller("promise", lib.initPromise, 0))]
     ELSE lib' = [lib EXCEPT !.initPromise = lib.fetches + 1,
                             !.pc = "fetch",
                             !.fetches = @ + 1,
                             !.callers = Append(@, Caller("new", lib.fetches + 1, 0))]
  /\ LibFrame

\* initPdfium without the test of initPromise
InitPdfium_NoPromiseCheck ==
  /\ Len(lib.callers) < MaxInitCalls
  /\ IF lib.pdfiumInstance # 0
     THEN lib' = [lib EXCEPT !.callers =
                    Append(@, Caller("instance", 0, lib.pdfiumInstance))]
     ELSE lib' = [lib EXCEPT !.initPromise = lib.fetches + 1,
                             !.pc = "fetch",
                             !.fetches = @ + 1,
                             !.callers = Append(@, Caller("new", lib.fetches + 1, 0))]
  /\ LibFrame

\* one call of initPdfium, up to its return: the instance if there is
\* one, else the promise if there is one, else a new promise whose async
\* function runs up to its first await, the fetch
InitPdfium ==
  /\ Len(lib.callers) < MaxInitCalls
  /\ IF lib.pdfiumInstance # 0
     THEN lib' = [lib EXCEPT !.callers =
                    Append(@, Caller("instance", 0, lib.pdfiumInstance))]
     ELSE IF lib.initPromise # 0
     THEN lib' = [lib EXCEPT !.callers =
                    Append(@, Caller("promise", lib.initPromise, 0))]
     ELSE lib' = [lib EXCEPT !.initPromise = lib.fetches + 1,
                             !.pc = "fetch",
                             !.fetches = @ + 1,
                             !.callers = Append(@, Caller("new", lib.fetches + 1, 0))]
  /\ LibFrame

\* fetch(PDFIUM_WASM_URL) settled
WasmFetchDone(ok) ==
  /\ lib.pc = "fetch"
  /\ lib' = IF ok THEN [lib EXCEPT !.pc = "arrayBuffer"]
            ELSE [lib EXCEPT !.pc = "rejected", !.error = "fetch"]
  /\ LibFrame

\* response.arrayBuffer() settled; init({wasmBinary}) is called
WasmBinaryDone(ok) ==
  /\ lib.pc = "arrayBuffer"
  /\ lib' = IF ok THEN [lib EXCEPT !.pc = "init", !.inits = @ + 1]
            ELSE [lib EXCEPT !.pc = "rejected", !.error = "arrayBuffer"]
  /\ LibFrame

\* init settled; extInit: whether PDFiumExt_Init returns.  The instance
\* is stored and the promise is fulfilled with it
NativeInitDone(ok, extInit) ==
  /\ lib.pc = "init"
  /\ lib' = IF ok /\ extInit
            THEN [lib EXCEPT !.pc = "fulfilled", !.pdfiumInstance = lib.inits]
            ELSE [lib EXCEPT !.pc = "rejected",
                             !.error = IF ok THEN "PDFiumExt_Init" ELSE "init"]
  /\ LibFrame

\* a caller awaiting the promise is resumed once the promise is settled
CallerResumes(c) ==
  /\ c \in 1..Len(lib.callers)
  /\ lib.callers[c].via # "instance"
  /\ lib.callers[c].result = 0
  /\ lib.pc \in {"fulfilled", "rejected"}
  /\ lib' = IF lib.pc = "fulfilled"
            THEN [lib EXCEPT !.callers[c].result = lib.pdfiumInstance]
            ELSE [lib EXCEPT !.callers[c].result = -1, !.callers[c].error = lib.error]
  /\ LibFrame

InitLib ==
  /\ InitViewer
  /\ analysis = NoCall
  /\ pdfium = NoCall
  /\ synth = NoCall
  /\ single = NoCall
  /\ lib = NewLib

LibStep ==
  \/ InitPdfium
  \/ \E ok \in BOOLEAN : WasmFetchDone(ok)
  \/ \E ok \in BOOLEAN : WasmBinaryDone(ok)
  \/ \E ok \in BOOLEAN, extInit \in BOOLEAN : NativeInitDone(ok, extInit)
  \/ \E c \in 1..MaxInitCalls : CallerResumes(c)

\* concurrent and successive calls of initPdfium
SpecInitPdfium == InitLib /\ [][LibStep]_vars

\* C29: the library is fetched and initialised at most once; every caller
\* that arrived while the initialisation was in flight holds the one
\* promise, and every caller that was given an instance was given the
\* same one, the instance stored in pdfiumInstance
C29_InitialisedAtMostOnce ==
  /\ lib.fetches <= 1
  /\ lib.inits <= 1
  /\ \A c \in 1..Len(lib.callers) :
       /\ lib.callers[c].via # "instance" => lib.callers[c].promise = lib.initPromise
       /\ lib.callers[c].result > 0 =>
            /\ lib.pdfiumInstance # 0
            /\ lib.callers[c].result = lib.pdfiumInstance
  /\ \A c, d \in 1..Len(lib.callers) :
       lib.callers[c].via # "instance" /\ lib.callers[d].via # "instance"
         => lib.callers[c].promise = lib.callers[d].promise

\* every caller holds the instance: the one that started the
\* initialisation, one that arrived while it was in flight and one that
\* arrived after it succeeded
C29_Witness ==
  /\ lib.pdfiumInstance # 0
  /\ \A c \in 1..Len(lib.callers) : lib.callers[c].result = lib.pdfiumInstance
  /\ {lib.callers[c].via : c \in 1..Len(lib.callers)} = {"new", "promise", "instance"}

\* ---------------------------------------------------------------------
\* Font lookups that fail inside the analysis
\* ---------------------------------------------------------------------

\* C30: a font lookup that times out, delivers nothing or throws does not
\* make analyzePageComplexity fail: the font counts as Type3 by its name
\* alone (and not at all when the lookup threw), the analysis goes on with
\* the next font, and after the last one it returns the verdict computed
\* from the operation counts of the page
C30_FailedFontLookupIsAbsorbed ==
  [][ \A outcome \in {"timeout", "nothing", "error"} :
        FontLookupDone(outcome) =>
          LET font == Head(analysis.fontsLeft)
          IN /\ analysis'.pc \in {"font", "done"}
             /\ analysis'.pc = "font" <=> Len(analysis.fontsLeft) > 1
             /\ analysis'.type3FontCount =
                  analysis.type3FontCount +
                    (IF outcome # "error" /\ font.nameHasType3 THEN 1 ELSE 0)
             /\ analysis'.page = analysis.page
             /\ analysis'.pc = "done" =>
                  analysis'.result =
                    HeavyVerdict(analysis'.type3FontCount, analysis.page.textCount,
                                 analysis.page.fontCount, analysis.page.operationCount)
    ]_vars

\* an analysis in which a lookup threw and another font was classified by
\* its name has returned a heavy verdict
C30_Witness ==
  /\ analysis.pc = "done"
  /\ ~analysis.clean
  /\ analysis.type3FontCount > 0
  /\ \A k \in 1..Len(analysis.page.fonts) : ~analysis.page.fonts[k].objIsType3
  /\ analysis.result.isHeavy

\* ---------------------------------------------------------------------
\* The debounce of the search
\* ---------------------------------------------------------------------

RunMoves(i) ==
  /\ i \in 1..Len(renderRuns)
  /\ Len(renderRuns') = Len(renderRuns)
  /\ renderRuns'[i] # renderRuns[i]

\* C32: a render request first queues the rendering mark of its page and
\* awaits getPage and the analysis, then awaits yieldToMain; the canvas of
\* a mounted page changes only in a step of a run on that page that has
\* reached the end of its yield
C32_PixelsOnlyAfterYield ==
  [][ /\ Len(renderRuns') = Len(renderRuns) + 1 =>
           LET run == renderRuns'[Len(renderRuns')]
               n == Len(pendingUpdates')
           IN /\ run.pc = "getPage"
              /\ canvas' = canvas
              /\ n = Len(pendingUpdates) + 1
              /\ pendingUpdates'[n].t = "prs_set"
              /\ pendingUpdates'[n].p = run.page
              /\ pendingUpdates'[n].v = PRS(FALSE, TRUE, FALSE)
      /\ \A i \in 1..Len(renderRuns) :
           /\ renderRuns[i].pc = "getPage" /\ RunMoves(i) =>
                renderRuns'[i].pc = "analyze" /\ canvas' = canvas
           /\ renderRuns[i].pc = "analyze" /\ RunMoves(i) =>
                renderRuns'[i].pc = "yield" /\ canvas' = canvas
           /\ renderRuns[i].pc = "yield" /\ RunMoves(i) =>
                renderRuns'[i].pc \in {"pdfium", "render", "textPrimary"}
      /\ (canvas' # canvas /\ pageRefsMap' = pageRefsMap) =>
           \E i \in 1..Len(renderRuns) :
             /\ RunMoves(i)
             /\ renderRuns[i].pc \in {"yield", "pdfium", "textFallback", "render"}
             /\ \A p \in DOMAIN canvas : canvas'[p] # canvas[p] => p = renderRuns[i].page
    ]_vars

\* both backends have written pixels: one page holds a PDFium bitmap and
\* another a pdf.js bitmap
C32_Witness ==
  /\ \E p \in DOMAIN canvas : canvas[p].kind = "fallback"
  /\ \E p \in DOMAIN canvas : canvas[p].kind = "primary"

\* ---------------------------------------------------------------------
\* The top-level error message
\* ---------------------------------------------------------------------

\* the setError calls with a message that a step queues
ErrorsQueuedByStep ==
  { k \in (Len(pendingUpdates) + 1)..Len(pendingUpdates') :
      pendingUpdates'[k].t = "error" /\ pendingUpdates'[k].v # "" }

\* C33: a step of a render run, failing or not, queues no error message
\* and leaves the message alone; a message is queued only by a load whose
\* getDocument failed, and the message shown is one queued that way
C33_RenderFailureSetsNoError ==
  [][ /\ renderRuns' # renderRuns => ErrorsQueuedByStep = {} /\ error' = error
      /\ ErrorsQueuedByStep # {} =>
           /\ Len(loads') = Len(loads) - 1
           /\ \A k \in ErrorsQueuedByStep : pendingUpdates'[k].v = "load"
      /\ (error' # error /\ error' # "") =>
           \E k \in 1..Len(pendingUpdates) :
             pendingUpdates[k].t = "error" /\ pendingUpdates[k].v = error'
      /\ error \in {"", "load"}
    ]_vars

\* a render run has failed, its page is back to not rendered, and no
\* error message is shown
C33_Witness ==
  /\ pdfDoc # NoDoc
  /\ error = ""
  /\ \E p \in DOMAIN pageRenderStates : pageRenderStates[p] = PRS(FALSE, FALSE, FALSE)

\* ---------------------------------------------------------------------
\* Search results against the current query
\* ---------------------------------------------------------------------

\* the list a complete scan of file f from page p on builds for query
RECURSIVE ScanResult(_, _, _)
ScanResult(f, p, query) ==
  IF p > NumPages(f) THEN << >>
  ELSE PageMatches(PageText(f, p), 0, p, query) \o ScanResult(f, p + 1, query)

\* what performSearch yields for the rendered document and query
ExpectedResults ==
  IF pdfDoc = NoDoc \/ IsBlank(searchQuery) THEN << >>
  ELSE ScanResult(pdfDoc.file, 1, ToLowerCase(searchQuery))

\* no scan in flight, no timer pending, nothing waiting for its render
SearchSettled ==
  /\ scans = << >>
  /\ ~searchTimer.set
  /\ pendingUpdates = << >>

\* a scan stores its list although the query or the document is no longer
\* the one it was started for
StaleScanCompletes(k) ==
  /\ ScanCompletes(k)
  /\ \/ scans[k].query # ToLowerCase(searchQuery)
     \/ scans[k].doc # pdfDoc
     \/ IsBlank(searchQuery)

\* C34: with no scan in flight and no timer pending, searchResults is the
\* scan of the active document for the current query (empty for a blank
\* query); a scan started for an earlier query never stores its list over
\* the results of a later query or of clearing the query
C34_ResultsMatchCurrentQuery ==
  [][ /\ SearchSettled => searchResults = ExpectedResults
      /\ \A k \in ScanIds : ~StaleScanCompletes(k)
    ]_vars

\* ---------------------------------------------------------------------
\* Two loads in flight
\* ---------------------------------------------------------------------

\* every requested load has settled and every update is rendered
LoadsSettled ==
  /\ loads = << >>
  /\ pendingUpdates = << >>

\* C35: after a second loadPdf was requested while the first was in
\* flight and both have settled, the document and the bytes in state are
\* those of the later request: the earlier load never replaces them
C35_LaterLoadWins ==
  (LoadsSettled /\ nLoads = 2) =>
    /\ pdfDoc # NoDoc => pdfDoc.id = nLoads
    /\ pdfArrayBuffer # NoBuf => pdfArrayBuffer = nLoads

\* ---------------------------------------------------------------------
\* The thumbnail list and the active document
\* ---------------------------------------------------------------------

\* C36: every entry of the thumbnail list was generated from the document
\* now in pdfDoc; with no document the list holds no entry
C36_ThumbnailsBelongToActiveDocument ==
  \A k \in 1..Len(thumbnails) :
    pdfDoc # NoDoc /\ thumbnails[k].doc = pdfDoc.id

\* ---------------------------------------------------------------------
\* Thumbnail generation comes to an end
\* ---------------------------------------------------------------------

\* one document is loaded and stays loaded
LiveLoadStep ==
  \/ \E f \in Files : nLoads = 0 /\ LoadPdf(f)
  \/ \E i \in LoadIds : LoadRead(i)
  \/ \E i \in LoadIds : LoadParsed(i, TRUE)

\* the steps of the thumbnail loop when no page operation fails
LiveThumbStep ==
  \/ \E j \in ThumbIds : ThumbYieldDone(j)
  \/ \E j \in ThumbIds : ThumbGetPageDone(j, TRUE)
  \/ \E j \in ThumbIds, heavy \in BOOLEAN : ThumbAnalyzeDone(j, TRUE, heavy, TRUE)
  \/ \E j \in ThumbIds : ThumbPdfiumDone(j, TRUE)
  \/ \E j \in ThumbIds : ThumbRenderDone(j, TRUE)
  \/ \E j \in ThumbIds : ThumbBlobDone(j, TRUE)
  \/ \E j \in ThumbIds : ThumbDataUrlDone(j, TRUE)

NextThumbsLive == LiveLoadStep \/ Commit \/ LiveThumbStep

\* every promise settles and React renders what is queued
SpecThumbsLive ==
  /\ Init
  /\ [][NextThumbsLive]_vars
  /\ WF_vars(LiveLoadStep)
  /\ WF_vars(Commit)
  /\ WF_vars(LiveThumbStep)

\* the list holds one entry per page, in page order, and no run is left
ThumbnailsComplete ==
  /\ pdfDoc # NoDoc
  /\ Len(thumbnails) = NumPages(pdfDoc.file)
  /\ \A k \in 1..Len(thumbnails) : thumbnails[k].page = k
  /\ thumbRuns = << >>
  /\ pendingUpdates = << >>

\* C37: with the document loaded, the panel visible and no failing page
\* operation, generation reaches one entry per page and from then on no
\* generation run is started any more
C37_ThumbnailGenerationTerminates == <>[]ThumbnailsComplete

\* the list of the document with the most pages is complete
C37_Witness ==
  /\ ThumbnailsComplete
  /\ Len(thumbnails) = MaxPages
  /\ ~isGeneratingThumbnails

\* ---------------------------------------------------------------------
\* The current match index and the result list
\* ---------------------------------------------------------------------

\* C38: the current match index is -1 exactly when the result list is
\* empty, and otherwise it is a position of the list
C38_MatchIndexWithinResults ==
  /\ currentMatchIndex = -1 <=> Len(searchResults) = 0
  /\ Len(searchResults) > 0 =>
       /\ 0 <= currentMatchIndex
       /\ currentMatchIndex < Len(searchResults)

\* ---------------------------------------------------------------------
\* The per-page render states
\* ---------------------------------------------------------------------

\* no entry of the map m is both rendered and rendering, and none is
\* marked usedPdfium without being rendered
PageStatesConsistent(m) ==
  \A p \in Pages :
    MapHas(m, p) =>
      /\ ~(m[p].rendered /\ m[p].rendering)
      /\ m[p].usedPdfium => m[p].rendered

\* the page states that a step queues
PageStatesQueuedByStep ==
  { k \in (Len(pendingUpdates) + 1)..Len(pendingUpdates') :
      pendingUpdates'[k].t = "prs_set" }

\* C39: no page is both rendered and rendering, usedPdfium is set only
\* for a rendered page, and a page state with usedPdfium is queued only by
\* a finishing render run whose analysis verdict was heavy and whose
\* PDFium branch did not fail
C39_PageRenderStatesConsistent ==
  [][ /\ PageStatesConsistent(pageRenderStates)
      /\ PageStatesConsistent(pageRenderStates')
      /\ \A k \in PageStatesQueuedByStep :
           /\ ~(pendingUpdates'[k].v.rendered /\ pendingUpdates'[k].v.rendering)
           /\ pendingUpdates'[k].v.usedPdfium =>
                /\ pendingUpdates'[k].v.rendered
                /\ \E i \in 1..Len(renderRuns) :
                     /\ renderRuns' = RemoveAt(renderRuns, i)
                     /\ renderRuns[i].page = pendingUpdates'[k].p
                     /\ renderRuns[i].heavy
                     /\ ~renderRuns[i].pdfiumFailed
    ]_vars

\* one page is rendered by PDFium while the state of another page is not
\* marked usedPdfium
C39_Witness ==
  /\ \E p \in Pages :
       MapHas(pageRenderStates, p) /\ pageRenderStates[p] = PRS(TRUE, FALSE, TRUE)
  /\ \E q \in Pages :
       MapHas(pageRenderStates, q) /\ ~pageRenderStates[q].usedPdfium

\* ---------------------------------------------------------------------
\* A failed initialisation of the PDFium library
\* ---------------------------------------------------------------------

\* C40: once the initialisation promise is rejected it stays the cached
\* promise: no fetch and no native init is started again, no instance is
\* stored, every later call of initPdfium is handed that promise, and
\* every caller that is resumed is rejected with the error of the first
\* attempt
C40_RejectedPromiseStaysCached ==
  [][ lib.pc = "rejected" =>
        /\ lib'.pc = "rejected"
        /\ lib'.error = lib.error
        /\ lib'.initPromise = lib.initPromise
        /\ lib'.fetches = lib.fetches
        /\ lib'.inits = lib.inits
        /\ lib'.pdfiumInstance = 0
        /\ Len(lib'.callers) > Len(lib.callers) =>
             /\ Len(lib'.callers) = Len(lib.callers) + 1
             /\ lib'.callers[Len(lib'.callers)].via = "promise"
             /\ lib'.callers[Len(lib'.callers)].promise = lib.initPromise
        /\ \A c \in 1..Len(lib'.callers) :
             lib'.callers[c].result # 0 =>
               /\ lib'.callers[c].result = -1
               /\ lib'.callers[c].error = lib.error
    ]_vars

\* the fetch failed, and the caller that started it and the callers
\* handed the cached promise have all been rejected with that error
C40_Witness ==
  /\ lib.pc = "rejected"
  /\ lib.error = "fetch"
  /\ lib.fetches = 1
  /\ Len(lib.callers) >= 3
  /\ \A c \in 1..Len(lib.callers) :
       lib.callers[c].result = -1 /\ lib.callers[c].error = "fetch"


====
